---- MODULE Spec2Model ----
(***************************************************************************)
(* The repotracker pipeline of evergreen: FetchRevisions polls a project's *)
(* repository, StoreRevisions turns each revision into a Version (a stub   *)
(* with errors, or a Version expanded into Builds and Tasks), and the      *)
(* watermark (Repository.LastRevision) is advanced afterwards.             *)
(*                                                                         *)
(* One project is tracked.  Revisions are numbered 1..head in commit       *)
(* order; revision 0 stands for the empty string (no watermark) and for a  *)
(* nil *version.Version.  A Version's Id is derived from project and       *)
(* revision only, so the revision number doubles as the Version's Id.      *)
(* Each tracker run is a process whose position is run[r].pc; every        *)
(* database operation or external fetch is one step, so that two runs of   *)
(* the same project interleave as they can in the program.                 *)
(***************************************************************************)
EXTENDS Integers, Sequences, FiniteSets, TLC

\* ------------------------------------------------------------- bounds
MaxRev == 3
MaxTime == 2
MaxFaults == 2
MaxOrder == 4
SeqRev == 2
ConcRev == 2

\* ------------------------------------------------- program constants
DefaultNumNewRepoRevisionsToFetch == 200
DefaultMaxRepoRevisionsToSearch == 50
\* settings.RepoTracker.NumNewRepoRevisionsToFetch / MaxRepoRevisionsToSearch
NumNewRepoRevisionsToFetch == 2
MaxRepoRevisionsToSearch == 2

\* the settings the tracker is configured with
Configured ==
  [NumNewRepoRevisionsToFetch |-> NumNewRepoRevisionsToFetch,
   MaxRepoRevisionsToSearch |-> MaxRepoRevisionsToSearch]

Runs == {"a", "b"}
\* ProjectRef.Identifier of the project the tracker is constructed for, and the
\* other projects that keep documents in the same collections
TrackedProject == "p"
OtherProjects == {"q"}
NoBatchTime == -1
NoTime == -1

VARIABLES
  head,          \* number of commits in the repository
  revKind,       \* per revision: its config and whether it changes only ignored files
  versions,      \* the versions collection, in insertion order
  builds,        \* the builds collection: <<version id, variant name>>
  tasks,         \* the tasks collection: <<version id, variant name, task name>>
  counter,       \* the project's revision order number counter
  lastRevision,  \* Repository.LastRevision (the watermark), 0 when absent
  now,           \* the clock
  ref,           \* the ProjectRef the tracker holds
  settings,      \* settings.RepoTracker of the tracker
  others,        \* per other project: its watermark and its order number counter
  faults,        \* collaborator failures injected so far
  run,           \* per run: position and locals of FetchRevisions/StoreRevisions
  docker,        \* the dockerClientImpl: its cached client and its HTTP client
  dockerCall,    \* the call of a dockerClientImpl method under way, or the last one
  vm,            \* SignalProcessingCtrl: vm.isLoading and vm.gridOptions.data
  theMostRecentPromise,  \* SignalProcessingCtrl: the promise of the last query, 0 at first
  promises,      \* the promises of the queries issued, in order
  jobs,          \* the promise callbacks that are ready to run
  request,       \* POST /rest/v2/notifications/{target_id}: the request being served
  postHandler,   \* the notificationPostHandler serving it
  sent,          \* the notifications handed to a sender, in order
  service,       \* rest/model: the service value last handed to BuildFromService
  apiModel,      \* rest/model: the API model the methods are called on
  conversion     \* rest/model: the calls made on apiModel and what they returned

\* ------------------------------------------------- the docker client
\* imageImportTimeout, in minutes
imageImportTimeout == 10

\* the timeouts util.GetHTTPClient may be configured with, 0 for none
Timeouts == {0, 1}

\* host.Host: its address and the port of its container pool settings
Hosts == [Host : {"", "h1", "h2"}, Port : {2375, 2376}]

\* a nil *docker.Client
NoClient == <<>>

\* the endpoint of the host: fmt.Sprintf("tcp://%s:%v", h.Host, port)
Endpoint(h) == <<"tcp", h.Host, h.Port>>

\* The locals of the call under way.  client0 and timeout0 record the cached
\* client and the timeout of the HTTP client when the method was called.
NoCall == [op |-> "-", pc |-> "idle", h |-> [Host |-> "", Port |-> 2375],
           client0 |-> NoClient, timeout0 |-> 0, normalTimeout |-> 0,
           dockerClient |-> NoClient, err |-> "nil"]

dockerVars == <<docker, dockerCall>>

\* dockerClientImpl.Init has run: no client yet, an HTTP client with the timeout
NewDocker(timeout) == [client |-> NoClient, httpClient |-> [Timeout |-> timeout]]

\* no method of the docker client has been called
DockerAtRest ==
  /\ docker = NewDocker(0)
  /\ dockerCall = NoCall

\* --------------------------------------------- SignalProcessingCtrl
MaxQueries == 3

ctrlVars == <<vm, theMostRecentPromise, promises, jobs>>

\* the controller is constructed: nothing is loading, the grid has no data
InitCtrl ==
  /\ vm = [isLoading |-> FALSE, data |-> 0]
  /\ theMostRecentPromise = 0
  /\ promises = <<>>
  /\ jobs = <<>>

\* --------------------------------------- the notification route
MaxSent == 2

routeVars == <<request, postHandler, sent>>

NoRequest == [target_id |-> "", body |-> "-"]

\* notificationPostHandler.Factory: a handler with no handler selected.
\* payload is the API model the selected handler holds: "nil" for none,
\* "zero" for a model nothing was decoded into, else the decoded body.
NewHandler == [pc |-> "idle", handler |-> "nil", payload |-> "nil", err |-> "nil"]

\* no request has been received
InitRoute ==
  /\ request = NoRequest
  /\ postHandler = NewHandler
  /\ sent = <<>>

\* ------------------------------------------- the REST API models
MaxBuilds == 2

modelVars == <<service, apiModel, conversion>>

\* a nil slice, and the slice of the elements xs (empty but not nil for <<>>)
NilList == [nil |-> TRUE, elems |-> <<>>]
List(xs) == [nil |-> FALSE, elems |-> xs]

\* a nil APIString; a nil map, func or pointer
NilString == <<>>
Nil == "nil"

\* the zero value of each API model
ZeroModel(type) ==
  CASE type = "APIJiraComment" -> [IssueID |-> NilString, Body |-> NilString]
    [] type = "APIJiraIssue" ->
         [IssueKey |-> NilString, Project |-> NilString, Summary |-> NilString,
          Description |-> NilString, Reporter |-> NilString, Assignee |-> NilString,
          Type |-> NilString, Components |-> NilList, Labels |-> NilList,
          Fields |-> Nil, Callback |-> Nil]
    [] type = "APISlack" ->
         [Target |-> NilString, Msg |-> NilString, Attachments |-> NilList]
    [] type = "APISlackAttachment" ->
         [Color |-> NilString, Fallback |-> NilString, AuthorName |-> NilString,
          AuthorIcon |-> NilString, Title |-> NilString, TitleLink |-> NilString,
          Text |-> NilString, Fields |-> NilList, MarkdownIn |-> NilList,
          Footer |-> NilString]
    [] type = "APISlackAttachmentField" ->
         [Title |-> NilString, Value |-> NilString, Short |-> FALSE]
    [] OTHER ->
         [From |-> NilString, Recipients |-> NilList, Subject |-> NilString,
          Body |-> NilString, PlainTextContents |-> FALSE, Headers |-> Nil]

NoService == [type |-> "-", pointer |-> FALSE, val |-> <<>>]
NoConversion == [pc |-> "new", builds |-> 0, err |-> "nil",
                 out |-> [val |-> <<>>, err |-> "nil"]]

\* no API model is being converted
ModelsAtRest ==
  /\ service = NoService
  /\ apiModel = [type |-> "APIJiraComment", val |-> ZeroModel("APIJiraComment")]
  /\ conversion = NoConversion

\* the variables outside the repotracker, and their values while nothing runs there
outside == <<dockerVars, ctrlVars, routeVars, modelVars>>
Elsewhere == DockerAtRest /\ InitCtrl /\ InitRoute /\ ModelsAtRest

\* no other project has stored anything
NoOthers == [q \in OtherProjects |-> [LastRevision |-> 0, RevisionOrderNumber |-> 0]]

vars == <<head, revKind, versions, builds, tasks, counter, lastRevision, now, ref,
          settings, others, outside, faults, run>>

\* ------------------------------------------------ project configurations
Variant(n, d, bt, ts) == [Name |-> n, Disabled |-> d, BatchTime |-> bt, Tasks |-> ts]

\* model.Project as GetRemoteConfig parses it, with the validator's verdict on it
Project(c) ==
  CASE c = 1 -> [BuildVariants |-> <<Variant("x", FALSE, NoBatchTime, {"compile"}),
                                     Variant("y", TRUE, NoBatchTime, {"compile"})>>,
                 Ignore |-> TRUE, Syntax |-> "ok"]
    [] c = 2 -> [BuildVariants |-> <<Variant("x", FALSE, 1, {"compile"}),
                                     Variant("y", FALSE, NoBatchTime, {"compile", "test"})>>,
                 Ignore |-> TRUE, Syntax |-> "warning"]
    [] OTHER -> [BuildVariants |-> <<Variant("x", FALSE, NoBatchTime, {"compile"})>>,
                 Ignore |-> FALSE, Syntax |-> "error"]

RevKinds == {[cfg |-> 1, onlyIgnored |-> FALSE],
             [cfg |-> 2, onlyIgnored |-> TRUE],
             [cfg |-> 3, onlyIgnored |-> FALSE]}

BatchTimes == {1, 2}
VariantNames == {"x", "y"}

\* ------------------------------------------------------- the store
NoVersion == [Id |-> 0, Identifier |-> "", Revision |-> 0, RevisionOrderNumber |-> 0, Errors |-> {},
              Warnings |-> {}, Ignored |-> FALSE, Config |-> 0,
              BuildVariants |-> <<>>]

\* Version.Id, util.CleanName("<project>_<revision>"): one id per project and
\* revision.  The tracked project's ids are written as the revision number,
\* another project's as its negative.
MakeId(project, rev) == IF project = TrackedProject THEN rev ELSE 0 - rev

\* the documents of the versions collection that belong to the project
OfProject(project) == {k \in 1..Len(versions) : versions[k].Identifier = project}

StoredIds == {versions[k].Id : k \in 1..Len(versions)}

\* version.FindOne(version.ById(id)): NoVersion when absent
FindOneById(id) ==
  IF id \in StoredIds
  THEN versions[CHOOSE k \in 1..Len(versions) : versions[k].Id = id]
  ELSE NoVersion

\* version.FindOne(version.ByProjectIdAndRevision(project, revision))
ByProjectIdAndRevision(project, revision) ==
  LET S == {k \in OfProject(project) : versions[k].Revision = revision}
  IN IF S = {} THEN NoVersion ELSE versions[CHOOSE k \in S : TRUE]

\* version.FindOne(version.ByMostRecentSystemRequester(project))
ByMostRecentSystemRequester ==
  LET S == OfProject(TrackedProject)
  IN IF S = {} THEN NoVersion
     ELSE versions[CHOOSE k \in S :
                     \A j \in S : versions[j].RevisionOrderNumber
                                    <= versions[k].RevisionOrderNumber]

HasActivated(v, name) ==
  \E k \in 1..Len(v.BuildVariants) :
    v.BuildVariants[k].BuildVariant = name /\ v.BuildVariants[k].Activated

\* version.FindOne(version.ByLastVariantActivation(project, variant)): the stored
\* version of highest order number with an activated build status for the variant
ByLastVariantActivation(name) ==
  LET S == {k \in OfProject(TrackedProject) : HasActivated(versions[k], name)}
  IN IF S = {} THEN NoVersion
     ELSE versions[CHOOSE k \in S :
                     \A j \in S : versions[j].RevisionOrderNumber
                                    <= versions[k].RevisionOrderNumber]

\* version.FindOne(version.ByMostRecentNonignored(project))
ByMostRecentNonignored ==
  LET S == {k \in OfProject(TrackedProject) : ~versions[k].Ignored}
  IN IF S = {} THEN NoVersion
     ELSE versions[CHOOSE k \in S :
                     \A j \in S : versions[j].RevisionOrderNumber
                                    <= versions[k].RevisionOrderNumber]

\* ProjectRef.GetBatchTime: the variant's override, else the project's batch time
GetBatchTime(pref, bv) == IF bv.BatchTime # NoBatchTime THEN bv.BatchTime ELSE pref.BatchTime

\* ------------------------------------------------------ the poller
\* GetRecentRevisions(n): the n most recent revisions, newest first
GetRecentRevisions(n) ==
  LET m == IF head < n THEN head ELSE n
  IN [k \in 1..m |-> head - k + 1]

\* GetRevisionsSince(since, max): the revisions after `since`, newest first,
\* searching at most `max` revisions back from the head
GetRevisionsSince(since, max) ==
  LET newer == head - since
      m == IF newer < max THEN newer ELSE max
  IN [k \in 1..m |-> head - k + 1]

NumRevisionsAsConfigured == settings.NumNewRepoRevisionsToFetch

NumRevisions ==
  IF settings.NumNewRepoRevisionsToFetch <= 0 THEN DefaultNumNewRepoRevisionsToFetch
  ELSE settings.NumNewRepoRevisionsToFetch

MaxSearch ==
  IF settings.MaxRepoRevisionsToSearch <= 0 THEN DefaultMaxRepoRevisionsToSearch
  ELSE settings.MaxRepoRevisionsToSearch

\* ------------------------------------------------------- the runs
\* A run's locals.  cfg, stored, made, other, wm0, after, poll and acts record
\* what the run did: the outcome of each config fetch, the Versions and Builds
\* it inserted, whether any other call returned an error, the watermark it
\* read, the runs that had returned when it started, the call it polled the
\* repository with, and its calls of DoProjectActivation; fetch is what
\* GetRemoteConfig returned for the revision at hand, "-" when it was not called.
IdleRun ==
  [pc |-> "idle",
   ref |-> [Enabled |-> TRUE, RepotrackerError |-> FALSE, BatchTime |-> 1,
            LocalConfig |-> FALSE],
   revisions |-> <<>>, i |-> 0, newestVersion |-> 0, err |-> "nil",
   v |-> NoVersion, project |-> 0, ignore |-> FALSE, bv |-> 0,
   wm0 |-> 0, cfg |-> [k \in 1..MaxRev |-> "-"], stored |-> {}, made |-> {},
   other |-> FALSE, after |-> {}, poll |-> "-", acts |-> 0, fetch |-> "-"]

Fault == faults < MaxFaults

\* `continue` in the loop of StoreRevisions
Continue(rec) ==
  [rec EXCEPT !.pc = "loop", !.i = @ - 1, !.v = NoVersion, !.project = 0,
              !.ignore = FALSE, !.bv = 0, !.fetch = "-"]

\* return from FetchRevisions
Done(rec, e) ==
  [rec EXCEPT !.pc = "done", !.err = e, !.v = NoVersion, !.project = 0,
              !.ignore = FALSE, !.bv = 0, !.i = 0]

RevisionNewestFirst(rec) == rec.revisions[Len(rec.revisions) - rec.i + 1]

\* StoreRevisions: the loop runs from the last element of the list to the first
Revision(rec) == rec.revisions[rec.i]

NextVariant(c, k) == IF k <= Len(Project(c).BuildVariants) THEN k ELSE 0

\* createVersionItems skips the disabled build variants: the first build
\* variant at or after position k that is not disabled, 0 if none
NextEnabled(c, k) ==
  LET bvs == Project(c).BuildVariants
      S == {j \in k..Len(bvs) : ~bvs[j].Disabled}
  IN IF S = {} THEN 0 ELSE CHOOSE j \in S : \A l \in S : j <= l

Init ==
  /\ head = 0
  /\ revKind = <<>>
  /\ versions = <<>>
  /\ builds = {}
  /\ tasks = {}
  /\ counter = 0
  /\ lastRevision = 0
  /\ now = 0
  /\ ref \in [Enabled : BOOLEAN, RepotrackerError : BOOLEAN, BatchTime : {1},
            LocalConfig : {FALSE}]
  /\ settings = Configured
  /\ others = NoOthers
  /\ Elsewhere
  /\ faults = 0
  /\ run = [r \in Runs |-> IdleRun]

\* a commit lands in the repository
Commit ==
  /\ head < MaxRev
  /\ \E k \in RevKinds :
       /\ head' = head + 1
       /\ revKind' = Append(revKind, k)
  /\ UNCHANGED <<versions, builds, tasks, counter, lastRevision, now, ref, settings, others, outside, faults, run>>

\* time passes
Tick ==
  /\ now < MaxTime
  /\ now' = now + 1
  /\ UNCHANGED <<head, revKind, versions, builds, tasks, counter, lastRevision, ref, settings, others, outside,
                 faults, run>>

\* the project's batch time is edited
SetBatchTime ==
  /\ \E b \in BatchTimes \ {ref.BatchTime} : ref' = [ref EXCEPT !.BatchTime = b]
  /\ UNCHANGED <<head, revKind, versions, builds, tasks, counter, lastRevision, now,
                 settings, others, outside, faults, run>>

NeverDisabled(pref) == FALSE

\* FetchRevisions: `if !projectRef.Enabled`
Disabled(pref) == ~pref.Enabled

PollFailedReturnsError(rec) == Done([rec EXCEPT !.other = TRUE], "poll")

\* FetchRevisions: the error of GetRecentRevisions or GetRevisionsSince is
\* logged and nil is returned
PollFailed(rec) == Done([rec EXCEPT !.other = TRUE], "nil")

NeverSkipsPoll(pref, last) == FALSE

\* FetchRevisions: a last revision is recorded and the project ref has a
\* repotracker error
SkipsPoll(pref, last) == last # 0 /\ pref.RepotrackerError

NoRevisionsReturns(rec, revisions) ==
  IF Len(revisions) > 0
  THEN [rec EXCEPT !.pc = "loop", !.revisions = revisions, !.i = Len(revisions)]
  ELSE Done(rec, "nil")

\* FetchRevisions: `if len(revisions) > 0` StoreRevisions is called, and
\* DoProjectActivation follows in either case
StartBatch(rec, revisions) ==
  IF Len(revisions) > 0
  THEN [rec EXCEPT !.pc = "loop", !.revisions = revisions, !.i = Len(revisions)]
  ELSE [rec EXCEPT !.pc = "activate"]

\* FetchRevisions up to the call of StoreRevisions
FetchRevisions(r) ==
  /\ run[r].pc = "idle"
  /\ LET called == [run[r] EXCEPT !.ref = ref,
                                  !.after = {q \in Runs : run[q].pc = "done"}]
         rec == [called EXCEPT !.wm0 = lastRevision]
     IN IF Disabled(ref)
        THEN /\ run' = [run EXCEPT ![r] = Done(called, "nil")]
             /\ UNCHANGED faults
        ELSE \/ \* FindRepository fails: its error is returned
                /\ Fault
                /\ faults' = faults + 1
                /\ run' = [run EXCEPT ![r] = Done(called, "repository")]
             \/ /\ SkipsPoll(ref, lastRevision)
                /\ run' = [run EXCEPT ![r] = Done(rec, "nil")]
                /\ UNCHANGED faults
             \/ /\ ~SkipsPoll(ref, lastRevision)
                /\ Fault
                /\ faults' = faults + 1
                /\ run' = [run EXCEPT ![r] =
                      PollFailed([rec EXCEPT !.poll = IF lastRevision = 0 THEN "recent"
                                                      ELSE "since"])]
             \/ /\ ~SkipsPoll(ref, lastRevision)
                /\ UNCHANGED faults
                /\ run' = [run EXCEPT ![r] =
                      IF lastRevision = 0
                      THEN StartBatch([rec EXCEPT !.poll = "recent"],
                                      GetRecentRevisions(NumRevisions))
                      ELSE StartBatch([rec EXCEPT !.poll = "since"],
                                      GetRevisionsSince(lastRevision, MaxSearch))]
  /\ UNCHANGED <<head, revKind, versions, builds, tasks, counter, lastRevision, now, ref, settings, others, outside>>

\* StoreRevisions, an existing version is found: it becomes newestVersion and
\* the revision is skipped
SkipExistingUnbound(rec, existingVersion) ==
  Continue([rec EXCEPT !.cfg[Revision(rec)] = "exists"])

SkipExistingRefetched(rec, existingVersion) ==
  [rec EXCEPT !.pc = "config", !.newestVersion = existingVersion.Id]

SkipExisting(rec, existingVersion) ==
  Continue([rec EXCEPT !.newestVersion = existingVersion.Id,
                       !.cfg[Revision(rec)] = "exists"])

\* the lookup by revision alone
ExistingVersionOfAnyProject(rec) ==
  LET S == {k \in 1..Len(versions) : versions[k].Revision = Revision(rec)}
  IN IF S = {} THEN NoVersion ELSE versions[CHOOSE k \in S : TRUE]

\* StoreRevisions: the version of the tracker's project and the revision at hand
ExistingVersion(rec) == ByProjectIdAndRevision(TrackedProject, Revision(rec))

\* StoreRevisions: the lookup of an existing version for the revision
FindExisting(r) ==
  /\ run[r].pc = "loop"
  /\ run[r].i >= 1
  /\ LET rec == run[r]
         existingVersion == ExistingVersion(rec)
     IN \/ /\ existingVersion.Id # 0
           /\ run' = [run EXCEPT ![r] = SkipExisting(rec, existingVersion)]
           /\ UNCHANGED faults
        \/ /\ existingVersion.Id = 0
           /\ run' = [run EXCEPT ![r].pc = "config"]
           /\ UNCHANGED faults
        \/ \* the lookup fails: the error is logged and the revision treated as new
           /\ Fault
           /\ faults' = faults + 1
           /\ run' = [run EXCEPT ![r].pc = "config", ![r].other = TRUE]
  /\ UNCHANGED <<head, revKind, versions, builds, tasks, counter, lastRevision, now, ref, settings, others, outside>>

\* StoreRevisions, GetProjectConfig returns an error that is no
\* projectConfigError: StoreRevisions returns nil and the error
ConfigFatalSkipped(rec) ==
  Continue([rec EXCEPT !.cfg[Revision(rec)] = "fatal"])

ConfigFatal(rec) ==
  Done([rec EXCEPT !.cfg[Revision(rec)] = "fatal", !.newestVersion = 0], "config")

IgnoresNothing(c, rev) == FALSE

\* StoreRevisions: the config declares ignore patterns and they match every file
\* the revision changed
IgnoresAllFiles(c, rev) == Project(c).Ignore /\ revKind[rev].onlyIgnored

\* the errors GetRemoteConfig returns
RemoteErrors ==
  {"APIRequestError", "YAMLFormatError", "FileNotFoundError", "APIUnmarshalError"}

IsConfigErrorAlways(e) == TRUE

\* GetProjectConfig: the errors of GetRemoteConfig that pertain to fetching a config
IsConfigError(e) == e \in {"APIRequestError", "YAMLFormatError", "FileNotFoundError"}

\* RepoTracker.GetProjectConfig: the project and the error it returns for
\* config c, given what model.FindProject (local) or GetRemoteConfig (remote)
\* returns; fetch is "-" when GetRemoteConfig is not called
GetProjectConfigOf(pref, c, local, remote) ==
  IF pref.LocalConfig
  THEN [project |-> IF local = "nil" THEN c ELSE 0, err |-> local, Errors |-> {},
        fetch |-> "-"]
  ELSE IF remote = "nil"
  THEN [project |-> c, err |-> "nil", Errors |-> {}, fetch |-> remote]
  ELSE IF IsConfigError(remote)
  THEN [project |-> 0, err |-> "projectConfigError",
        Errors |-> {"problem finding project configuration"}, fetch |-> remote]
  ELSE [project |-> 0, err |-> remote, Errors |-> {}, fetch |-> remote]

\* StoreRevisions: GetProjectConfig of the revision, then the ignored-files check
GetProjectConfig(r) ==
  /\ run[r].pc = "config"
  /\ \E local \in {"nil", "FindProject"} : \E remote \in {"nil"} \cup RemoteErrors :
       LET rec == run[r]
           rev == Revision(rec)
           c == revKind[rev].cfg
           res == GetProjectConfigOf(rec.ref, c, local, remote)
           got == [rec EXCEPT !.fetch = res.fetch]
       IN /\ IF rec.ref.LocalConfig THEN remote = "nil" ELSE local = "nil"
          /\ \/ \* a projectConfigError with errors: a stub version is stored
                /\ res.err = "projectConfigError"
                /\ res.Errors # {}
                /\ Fault
                /\ faults' = faults + 1
                /\ run' = [run EXCEPT ![r] =
                      [got EXCEPT !.pc = "stub", !.cfg[rev] = "recoverable"]]
             \/ \* any other error is returned
                /\ res.err \notin {"nil", "projectConfigError"}
                /\ Fault
                /\ faults' = faults + 1
                /\ run' = [run EXCEPT ![r] = ConfigFatal(got)]
             \/ \* GetChangedFiles fails
                /\ res.err = "nil"
                /\ Project(c).Ignore
                /\ Fault
                /\ faults' = faults + 1
                /\ run' = [run EXCEPT ![r] =
                      Continue([got EXCEPT !.cfg[rev] = "ok", !.other = TRUE])]
             \/ /\ res.err = "nil"
                /\ UNCHANGED faults
                /\ run' = [run EXCEPT ![r] =
                      [got EXCEPT !.pc = "shell", !.cfg[rev] = "ok",
                                  !.project = res.project,
                                  !.ignore = IgnoresAllFiles(c, rev)]]
  /\ UNCHANGED <<head, revKind, versions, builds, tasks, counter, lastRevision, now, ref, settings, others, outside>>

shellVersionWithFirstNumber(rev, number) ==
  [NoVersion EXCEPT !.Id = MakeId(TrackedProject, rev), !.Identifier = TrackedProject,
                    !.Revision = rev, !.RevisionOrderNumber = 1]

\* shellVersionFromRevision: a new Version with the next revision order number
shellVersionFromRevision(rev, number) ==
  [NoVersion EXCEPT !.Id = MakeId(TrackedProject, rev), !.Identifier = TrackedProject,
                    !.Revision = rev, !.RevisionOrderNumber = number]

\* version.Insert: refused on a duplicate id or a duplicate order number of the project
IsDuplicateKey(v) ==
  \/ v.Id \in StoredIds
  \/ \E k \in OfProject(v.Identifier) :
        versions[k].RevisionOrderNumber = v.RevisionOrderNumber

\* StoreRevisions: the stub version carries the errors of the projectConfigError
StubVersionNoErrors(rev, number) == shellVersionFromRevision(rev, number)

StubVersion(rev, number) ==
  [shellVersionFromRevision(rev, number) EXCEPT !.Errors = {"config"}]

\* StoreRevisions: the stub version of a revision whose config could not be read
StubShell(r) ==
  /\ run[r].pc = "stub"
  /\ LET rec == run[r]
     IN \/ /\ counter < MaxOrder
           /\ counter' = counter + 1
           /\ UNCHANGED faults
           /\ run' = [run EXCEPT ![r] =
                 [rec EXCEPT !.pc = "stubInsert",
                             !.v = StubVersion(Revision(rec), counter + 1)]]
        \/ \* GetNewRevisionOrderNumber fails: stubVersion is nil and is dereferenced
           /\ Fault
           /\ faults' = faults + 1
           /\ UNCHANGED counter
           /\ run' = [run EXCEPT ![r] = [rec EXCEPT !.pc = "panic", !.other = TRUE]]
  /\ UNCHANGED <<head, revKind, versions, builds, tasks, lastRevision, now, ref, settings, others, outside>>

StubInsert(r) ==
  /\ run[r].pc = "stubInsert"
  /\ LET rec == run[r]
         next == Continue([rec EXCEPT !.newestVersion = rec.v.Id])
     IN \/ /\ ~IsDuplicateKey(rec.v)
           /\ versions' = Append(versions, rec.v)
           /\ UNCHANGED faults
           /\ run' = [run EXCEPT ![r] = [next EXCEPT !.stored = @ \cup {rec.v.Id}]]
        \/ \* the insert's error is logged and dropped
           /\ IsDuplicateKey(rec.v)
           /\ UNCHANGED <<versions, faults>>
           /\ run' = [run EXCEPT ![r] = [next EXCEPT !.other = TRUE]]
        \/ /\ Fault
           /\ faults' = faults + 1
           /\ UNCHANGED versions
           /\ run' = [run EXCEPT ![r] = [next EXCEPT !.other = TRUE]]
  /\ UNCHANGED <<head, revKind, builds, tasks, counter, lastRevision, now, ref, settings, others, outside>>

\* CreateVersionFromConfig: the shell version of the revision
ShellVersion(r) ==
  /\ run[r].pc = "shell"
  /\ LET rec == run[r]
     IN \/ /\ counter < MaxOrder
           /\ counter' = counter + 1
           /\ UNCHANGED faults
           /\ run' = [run EXCEPT ![r] =
                 [rec EXCEPT !.pc = "sanity",
                             !.v = shellVersionFromRevision(Revision(rec), counter + 1)]]
        \/ /\ Fault
           /\ faults' = faults + 1
           /\ UNCHANGED counter
           /\ run' = [run EXCEPT ![r] = Continue([rec EXCEPT !.other = TRUE])]
  /\ UNCHANGED <<head, revKind, versions, builds, tasks, lastRevision, now, ref, settings, others, outside>>

\* sanityCheckOrderNum: "nil", or the error it returns
sanityCheckOrderNum(revOrderNum, revision) ==
  LET latest == ByMostRecentSystemRequester
  IN IF latest.Id = 0 THEN "nil"
     ELSE IF latest.Revision = revision THEN "duplicate revision"
     ELSE IF revOrderNum <= latest.RevisionOrderNumber THEN "order number"
     ELSE "nil"

\* validator.CheckProjectSyntax, split by level as CreateVersionFromConfig does;
\* Syntax is the highest level among the messages, and a config with an error
\* has a warning too
ProjectErrors(c) == IF Project(c).Syntax = "error" THEN {"syntax"} ELSE {}
ProjectWarnings(c) == IF Project(c).Syntax \in {"warning", "error"} THEN {"syntax"} ELSE {}

HasNoErrors(v) == FALSE

\* CreateVersionFromConfig: `if len(v.Errors) > 0`
HasErrors(v) == v.Errors # {}

\* CreateVersionFromConfig from the sanity check to the validator's verdict
SanityCheck(r) ==
  /\ run[r].pc = "sanity"
  /\ LET rec == run[r]
         v == [rec.v EXCEPT !.Config = rec.project, !.Ignored = rec.ignore,
                            !.Warnings = ProjectWarnings(rec.project),
                            !.Errors = ProjectErrors(rec.project)]
     IN IF sanityCheckOrderNum(rec.v.RevisionOrderNumber, rec.v.Revision) # "nil"
        THEN /\ run' = [run EXCEPT ![r] = Continue([rec EXCEPT !.other = TRUE])]
             /\ UNCHANGED faults
        ELSE \/ \* yaml.Marshal or validator.CheckProjectSyntax fails
                /\ Fault
                /\ faults' = faults + 1
                /\ run' = [run EXCEPT ![r] = Continue([rec EXCEPT !.other = TRUE])]
             \/ /\ UNCHANGED faults
                /\ run' = [run EXCEPT ![r] =
                      IF HasErrors(v)
                      THEN [rec EXCEPT !.pc = "errInsert", !.v = v]
                      ELSE [rec EXCEPT !.v = v, !.bv = NextEnabled(rec.project, 1),
                                       !.pc = IF NextEnabled(rec.project, 1) = 0
                                              THEN "insert" ELSE "builds"]]
  /\ UNCHANGED <<head, revKind, versions, builds, tasks, counter, lastRevision, now, ref,
                 settings, others, outside>>

\* CreateVersionFromConfig: the insert of a version that has errors
ErrInsert(r) ==
  /\ run[r].pc = "errInsert"
  /\ LET rec == run[r]
     IN \/ /\ ~IsDuplicateKey(rec.v)
           /\ versions' = Append(versions, rec.v)
           /\ \/ /\ UNCHANGED faults
                 /\ run' = [run EXCEPT ![r] =
                       Continue([rec EXCEPT !.newestVersion = rec.v.Id,
                                            !.stored = @ \cup {rec.v.Id}])]
              \/ \* addBuildBreakSubscriptions fails
                 /\ Fault
                 /\ faults' = faults + 1
                 /\ run' = [run EXCEPT ![r] =
                       Continue([rec EXCEPT !.other = TRUE,
                                            !.stored = @ \cup {rec.v.Id}])]
        \/ /\ IsDuplicateKey(rec.v)
           /\ UNCHANGED <<versions, faults>>
           /\ run' = [run EXCEPT ![r] = Continue([rec EXCEPT !.other = TRUE])]
        \/ /\ Fault
           /\ faults' = faults + 1
           /\ UNCHANGED versions
           /\ run' = [run EXCEPT ![r] = Continue([rec EXCEPT !.other = TRUE])]
  /\ UNCHANGED <<head, revKind, builds, tasks, counter, lastRevision, now, ref, settings, others, outside>>

\* createVersionItems: the activation time recorded by the last activation of the
\* variant, NoTime when there is none
LastActivation(name) ==
  LET lastActivated == ByLastVariantActivation(name)
      bvs == lastActivated.BuildVariants
      S == {k \in 1..Len(bvs) : bvs[k].BuildVariant = name /\ bvs[k].Activated}
  IN IF lastActivated.Id = 0 \/ S = {} THEN NoTime
     ELSE bvs[CHOOSE k \in S : \A l \in S : k <= l].ActivateAt

ActivateAtNow(pref, bv) == now

ActivateAt(pref, bv) ==
  IF LastActivation(bv.Name) = NoTime THEN now
  ELSE LastActivation(bv.Name) + GetBatchTime(pref, bv)

BuildStatus(bv, at, id) ==
  [BuildVariant |-> bv.Name, Activated |-> FALSE, ActivateAt |-> at, BuildId |-> id]

\* model.CreateBuildFromVersion: the build of (version, variant) and its tasks
BuildId(v, name) == <<v.Id, name>>
TasksOfBuild(v, bv) == {<<v.Id, bv.Name, t>> : t \in bv.Tasks}

\* createVersionItems: one pass of the loop over the build variants
CreateBuild(r) ==
  /\ run[r].pc = "builds"
  /\ LET rec == run[r]
         bv == Project(rec.project).BuildVariants[rec.bv]
         buildId == BuildId(rec.v, bv.Name)
         nxt == NextEnabled(rec.project, rec.bv + 1)
     IN \/ \* the build exists already: CreateBuildFromVersion returns an error
           /\ buildId \in builds
           /\ UNCHANGED <<builds, tasks, faults>>
           /\ run' = [run EXCEPT ![r] = Continue([rec EXCEPT !.other = TRUE])]
        \/ /\ Fault
           /\ faults' = faults + 1
           /\ UNCHANGED <<builds, tasks>>
           /\ run' = [run EXCEPT ![r] = Continue([rec EXCEPT !.other = TRUE])]
        \/ \* the build is created, the lookup of the last activation fails
           /\ buildId \notin builds
           /\ Fault
           /\ faults' = faults + 1
           /\ builds' = builds \cup {buildId}
           /\ tasks' = tasks \cup TasksOfBuild(rec.v, bv)
           /\ run' = [run EXCEPT ![r] =
                 Continue([rec EXCEPT !.other = TRUE, !.made = @ \cup {buildId}])]
        \/ /\ buildId \notin builds
           /\ UNCHANGED faults
           /\ builds' = builds \cup {buildId}
           /\ tasks' = tasks \cup TasksOfBuild(rec.v, bv)
           /\ run' = [run EXCEPT ![r] =
                 [rec EXCEPT !.made = @ \cup {buildId},
                    !.v.BuildVariants =
                       Append(@, BuildStatus(bv, ActivateAt(rec.ref, bv), buildId)),
                    !.bv = nxt,
                    !.pc = IF nxt = 0 THEN "insert" ELSE "builds"]]
  /\ UNCHANGED <<head, revKind, versions, counter, lastRevision, now, ref, settings, others, outside>>

\* model.DeleteBuild for every build status of v
DeleteBuilds(v) ==
  builds \ {v.BuildVariants[k].BuildId : k \in 1..Len(v.BuildVariants)}

DeleteTasks(v) ==
  {t \in tasks : <<t[1], t[2]>> \notin
                   {v.BuildVariants[k].BuildId : k \in 1..Len(v.BuildVariants)}}

\* createVersionItems: the insert of the version, then addBuildBreakSubscriptions
InsertVersion(r) ==
  /\ run[r].pc = "insert"
  /\ LET rec == run[r]
     IN \/ /\ ~IsDuplicateKey(rec.v)
           /\ versions' = Append(versions, rec.v)
           /\ UNCHANGED <<builds, tasks>>
           /\ \/ /\ UNCHANGED faults
                 /\ run' = [run EXCEPT ![r] =
                       Continue([rec EXCEPT !.newestVersion = rec.v.Id,
                                            !.stored = @ \cup {rec.v.Id}])]
              \/ /\ Fault
                 /\ faults' = faults + 1
                 /\ run' = [run EXCEPT ![r] =
                       Continue([rec EXCEPT !.other = TRUE,
                                            !.stored = @ \cup {rec.v.Id}])]
        \/ \* a duplicate key is not an error
           /\ IsDuplicateKey(rec.v)
           /\ UNCHANGED <<versions, builds, tasks, faults>>
           /\ run' = [run EXCEPT ![r] = Continue([rec EXCEPT !.newestVersion = rec.v.Id])]
        \/ \* any other error: the builds are deleted and the error returned
           /\ Fault
           /\ faults' = faults + 1
           /\ UNCHANGED versions
           /\ builds' = DeleteBuilds(rec.v)
           /\ tasks' = DeleteTasks(rec.v)
           /\ run' = [run EXCEPT ![r] = Continue([rec EXCEPT !.other = TRUE])]
  /\ UNCHANGED <<head, revKind, counter, lastRevision, now, ref, settings, others, outside>>

\* the version the loop held, as it was when the loop left it
LastVersionAsHeld(rec) ==
  [NoVersion EXCEPT !.Id = rec.newestVersion, !.Identifier = TrackedProject,
                    !.Revision = rec.newestVersion]

\* StoreRevisions, deferred: newestVersion is read again from the store by its id
LastVersion(rec) == FindOneById(rec.newestVersion)

\* StoreRevisions returns: the deferred lookup of newestVersion, then
\* FetchRevisions up to the call of UpdateLastRevision
StoreReturns(r) ==
  /\ run[r].pc = "loop"
  /\ run[r].i = 0
  /\ LET rec == run[r]
         found == LastVersion(rec)
     IN \/ /\ UNCHANGED faults
           /\ run' = [run EXCEPT ![r] =
                 IF rec.newestVersion = 0 \/ found.Id = 0
                 THEN [rec EXCEPT !.pc = "panic", !.newestVersion = 0]
                 ELSE [rec EXCEPT !.pc = "update"]]
        \/ \* the deferred lookup fails: StoreRevisions returns its error
           /\ rec.newestVersion # 0
           /\ Fault
           /\ faults' = faults + 1
           /\ run' = [run EXCEPT ![r] =
                 Done([rec EXCEPT !.other = TRUE, !.newestVersion = 0], "find")]
  /\ UNCHANGED <<head, revKind, versions, builds, tasks, counter, lastRevision, now, ref, settings, others, outside>>

UpdateFailedActivates(rec) == [rec EXCEPT !.pc = "activate"]

\* FetchRevisions: the error of model.UpdateLastRevision is returned
UpdateFailed(rec) == Done(rec, "update")

\* FetchRevisions: model.UpdateLastRevision
UpdateLastRevision(r) ==
  /\ run[r].pc = "update"
  /\ LET rec == run[r]
         lastVersion == LastVersion(rec)
     IN \/ \* the repository document of lastVersion.Identifier is written
           /\ IF lastVersion.Identifier \in OtherProjects
              THEN /\ others' = [others EXCEPT
                                   ![lastVersion.Identifier].LastRevision =
                                      lastVersion.Revision]
                   /\ UNCHANGED lastRevision
              ELSE /\ lastRevision' = lastVersion.Revision
                   /\ UNCHANGED others
           /\ UNCHANGED faults
           /\ run' = [run EXCEPT ![r].pc = "activate"]
        \/ /\ Fault
           /\ faults' = faults + 1
           /\ UNCHANGED <<lastRevision, others>>
           /\ run' = [run EXCEPT ![r] = UpdateFailed(rec)]
  /\ UNCHANGED <<head, revKind, versions, builds, tasks, counter, now, ref, settings, outside>>

\* model.ActivateElapsedBuilds: the build statuses whose time has come
ActivateElapsedBuilds(v) ==
  [v EXCEPT !.BuildVariants =
     [k \in 1..Len(v.BuildVariants) |->
        IF ~v.BuildVariants[k].Activated /\ now >= v.BuildVariants[k].ActivateAt
        THEN [v.BuildVariants[k] EXCEPT !.Activated = TRUE, !.ActivateAt = now]
        ELSE v.BuildVariants[k]]]

\* FetchRevisions: model.DoProjectActivation, on the most recent version not ignored
DoProjectActivation(r) ==
  /\ run[r].pc = "activate"
  /\ LET rec == [run[r] EXCEPT !.acts = @ + 1]
         activateVersion == ByMostRecentNonignored
     IN \/ /\ UNCHANGED faults
           /\ versions' = [k \in 1..Len(versions) |->
                             IF versions[k].Id = activateVersion.Id
                             THEN ActivateElapsedBuilds(versions[k]) ELSE versions[k]]
           /\ run' = [run EXCEPT ![r] = Done(rec, "nil")]
        \/ /\ Fault
           /\ faults' = faults + 1
           /\ UNCHANGED versions
           /\ run' = [run EXCEPT ![r] = Done(rec, "activate")]
  /\ UNCHANGED <<head, revKind, builds, tasks, counter, lastRevision, now, ref, settings, others, outside>>

\* the run is over; the runner will start the next one
Return(r) ==
  /\ run[r].pc \in {"done", "panic"}
  /\ run' = [run EXCEPT ![r] = IdleRun]
  /\ UNCHANGED <<head, revKind, versions, builds, tasks, counter, lastRevision, now, ref, settings, others, outside,
                 faults>>

\* the steps of a run between its start and its return
Work(r) ==
  \/ FindExisting(r)
  \/ GetProjectConfig(r)
  \/ StubShell(r)
  \/ StubInsert(r)
  \/ ShellVersion(r)
  \/ SanityCheck(r)
  \/ ErrInsert(r)
  \/ CreateBuild(r)
  \/ InsertVersion(r)
  \/ StoreReturns(r)
  \/ UpdateLastRevision(r)
  \/ DoProjectActivation(r)

Next ==
  \/ Commit
  \/ Tick
  \/ SetBatchTime
  \/ \E r \in Runs : FetchRevisions(r)
  \/ \E r \in Runs : Work(r)
  \/ \E r \in Runs : Return(r)

Spec == Init /\ [][Next]_vars

\* ------------------------------------------------- specifications
\* no run is under way or waiting to be collected
Quiet == \A r \in Runs : run[r].pc = "idle"

\* no run is between two database operations of one revision
BetweenRevisions == \A r \in Runs : run[r].pc \in {"idle", "loop", "activate"}

\* run "b" runs only once run "a" has returned, and "a" again only once "b" is collected
SeqOrder == run["b"].pc = "idle" \/ run["a"].pc = "done"

InitSeq == Init

\* Runs of the project that do not overlap.  Commits happen between runs; the
\* clock stands still.
NextSeq ==
  \/ Quiet /\ head < SeqRev /\ Commit
  \/ \E r \in Runs : FetchRevisions(r) /\ SeqOrder'
  \/ \E r \in Runs : Work(r)
  \/ \E r \in Runs : Return(r) /\ SeqOrder'

SpecSeq == InitSeq /\ [][NextSeq]_vars

\* The runner starts the next run again and again, and a run that has started
\* takes its steps until it returns.
Fairness ==
  /\ WF_vars(\E r \in Runs : FetchRevisions(r) /\ SeqOrder')
  /\ WF_vars(\E r \in Runs : Work(r))
  /\ WF_vars(\E r \in Runs : Return(r) /\ SeqOrder')

\* Runs that do not overlap, scheduled for ever; at most MaxFaults calls fail.
SpecLive == InitSeq /\ [][NextSeq]_vars /\ Fairness

\* One run after the other, at most MaxFaults - 1 calls failing, while time
\* passes and the project's batch time is edited between runs.
InitAct ==
  /\ head = 0
  /\ revKind = <<>>
  /\ versions = <<>>
  /\ builds = {}
  /\ tasks = {}
  /\ counter = 0
  /\ lastRevision = 0
  /\ now = 0
  /\ ref = [Enabled |-> TRUE, RepotrackerError |-> FALSE, BatchTime |-> 1,
            LocalConfig |-> FALSE]
  /\ settings = Configured
  /\ others = NoOthers
  /\ Elsewhere
  /\ faults = MaxFaults - 1
  /\ run = [r \in Runs |-> IdleRun]

NextAct ==
  \/ Quiet /\ Commit
  \/ BetweenRevisions /\ Tick
  \/ Quiet /\ SetBatchTime
  \/ \E r \in {"a"} : FetchRevisions(r)
  \/ \E r \in {"a"} : Work(r)
  \/ \E r \in {"a"} : Return(r)

SpecAct == InitAct /\ [][NextAct]_vars

\* Two runs of the project overlapping, each from its start to its return, while
\* commits land; at most MaxFaults - 1 calls fail and the clock stands still.
InitConc ==
  /\ head = 0
  /\ revKind = <<>>
  /\ versions = <<>>
  /\ builds = {}
  /\ tasks = {}
  /\ counter = 0
  /\ lastRevision = 0
  /\ now = 0
  /\ ref = [Enabled |-> TRUE, RepotrackerError |-> FALSE, BatchTime |-> 1,
            LocalConfig |-> FALSE]
  /\ settings = Configured
  /\ others = NoOthers
  /\ Elsewhere
  /\ faults = MaxFaults - 1
  /\ run = [r \in Runs |-> IdleRun]

NextConc ==
  \/ head < ConcRev /\ Commit
  \/ \E r \in Runs : FetchRevisions(r)
  \/ \E r \in Runs : Work(r)

SpecConc == InitConc /\ [][NextConc]_vars

\* One run after the other of a project with or without a local config path,
\* at most one call failing.
InitConfig ==
  /\ head = 0
  /\ revKind = <<>>
  /\ versions = <<>>
  /\ builds = {}
  /\ tasks = {}
  /\ counter = 0
  /\ lastRevision = 0
  /\ now = 0
  /\ ref \in [Enabled : {TRUE}, RepotrackerError : {FALSE}, BatchTime : {1},
              LocalConfig : BOOLEAN]
  /\ settings = Configured
  /\ others = NoOthers
  /\ Elsewhere
  /\ faults = MaxFaults - 1
  /\ run = [r \in Runs |-> IdleRun]

\* the values the two settings of the tracker are drawn from
SettingValues == {-1, 0, 1, 2}

\* One run after the other under any settings, at most one call failing.
InitPoll ==
  /\ head = 0
  /\ revKind = <<>>
  /\ versions = <<>>
  /\ builds = {}
  /\ tasks = {}
  /\ counter = 0
  /\ lastRevision = 0
  /\ now = 0
  /\ ref = [Enabled |-> TRUE, RepotrackerError |-> FALSE, BatchTime |-> 1,
            LocalConfig |-> FALSE]
  /\ settings \in [NumNewRepoRevisionsToFetch : SettingValues,
                   MaxRepoRevisionsToSearch : SettingValues]
  /\ others = NoOthers
  /\ Elsewhere
  /\ faults = MaxFaults - 1
  /\ run = [r \in Runs |-> IdleRun]

NextPoll ==
  \/ Quiet /\ Commit
  \/ \E r \in {"a"} : FetchRevisions(r)
  \/ \E r \in {"a"} : Work(r)
  \/ \E r \in {"a"} : Return(r)

SpecPoll == InitPoll /\ [][NextPoll]_vars

SpecConfig == InitConfig /\ [][NextPoll]_vars

\* ------------------------------------------------- another project
\* The tracker of another project works on the same collections under its own
\* project key.  Its store operations are the ones of the tracked project's
\* run; they are taken one revision at a time, in commit order.

\* the Version the other project's tracker stores for the revision: one build
\* variant, to be activated at once
OtherVersion(q, rev, number) ==
  [NoVersion EXCEPT !.Id = MakeId(q, rev), !.Identifier = q, !.Revision = rev,
                    !.RevisionOrderNumber = number, !.Config = 1,
                    !.BuildVariants =
                       <<BuildStatus(Variant("x", FALSE, NoBatchTime, {"compile"}), now,
                                     <<MakeId(q, rev), "x">>)>>]

\* StoreRevisions of the other project: the order number is drawn from its
\* counter, the build, its task and the version are inserted
OtherStoreRevision(q) ==
  /\ others[q].RevisionOrderNumber < head
  /\ LET number == others[q].RevisionOrderNumber + 1
         v == OtherVersion(q, number, number)
     IN /\ others' = [others EXCEPT ![q].RevisionOrderNumber = number]
        /\ versions' = Append(versions, v)
        /\ builds' = builds \cup {BuildId(v, "x")}
        /\ tasks' = tasks \cup {<<v.Id, "x", "compile">>}
  /\ UNCHANGED <<head, revKind, counter, lastRevision, now, ref, settings, outside, faults,
                 run>>

\* FetchRevisions of the other project: model.UpdateLastRevision under its key
OtherUpdateLastRevision(q) ==
  /\ others[q].LastRevision < others[q].RevisionOrderNumber
  /\ others' = [others EXCEPT ![q].LastRevision = others[q].RevisionOrderNumber]
  /\ UNCHANGED <<head, revKind, versions, builds, tasks, counter, lastRevision, now, ref,
                 settings, outside, faults, run>>

\* FetchRevisions of the other project: model.DoProjectActivation under its key
OtherActivation(q) ==
  /\ others[q].LastRevision > 0
  /\ LET activateVersion == ByProjectIdAndRevision(q, others[q].LastRevision)
     IN /\ ActivateElapsedBuilds(activateVersion) # activateVersion
        /\ versions' = [k \in 1..Len(versions) |->
                          IF versions[k].Id = activateVersion.Id
                          THEN ActivateElapsedBuilds(versions[k]) ELSE versions[k]]
  /\ UNCHANGED <<head, revKind, builds, tasks, counter, lastRevision, now, ref, settings,
                 others, outside, faults, run>>

\* One run of the tracked project at a time, at most one call failing, while
\* the tracker of the other project stores, advances and activates.
NextProj ==
  \/ Quiet /\ head < SeqRev /\ Commit
  \/ \E r \in {"a"} : FetchRevisions(r)
  \/ \E r \in {"a"} : Work(r)
  \/ \E r \in {"a"} : Return(r)
  \/ \E q \in OtherProjects : OtherStoreRevision(q)
  \/ \E q \in OtherProjects : OtherUpdateLastRevision(q)
  \/ \E q \in OtherProjects : OtherActivation(q)

SpecProj == InitAct /\ [][NextProj]_vars

\* ------------------------------------------------- the docker client
\* the repotracker's variables
trackerVars == <<head, revKind, versions, builds, tasks, counter, lastRevision, now, ref,
                 settings, others, faults, run>>

\* the repotracker before any commit and any run
TrackerAtRest ==
  /\ head = 0
  /\ revKind = <<>>
  /\ versions = <<>>
  /\ builds = {}
  /\ tasks = {}
  /\ counter = 0
  /\ lastRevision = 0
  /\ now = 0
  /\ ref = IdleRun.ref
  /\ settings = Configured
  /\ others = NoOthers
  /\ faults = 0
  /\ run = [r \in Runs |-> IdleRun]

\* generateClient: the dockerClientImpl afterwards, the client and the error
\* returned; fails says whether docker.NewClient returns an error
generateClient(d, h, fails) ==
  IF h.Host = ""
  THEN [c |-> d, client |-> NoClient, err |-> "HostIP must not be blank"]
  ELSE IF d.client # NoClient
  THEN [c |-> d, client |-> d.client, err |-> "nil"]
  ELSE IF fails
  THEN [c |-> [d EXCEPT !.client = NoClient], client |-> NoClient,
        err |-> "Docker initialize client API call failed"]
  ELSE [c |-> [d EXCEPT !.client = Endpoint(h)], client |-> Endpoint(h), err |-> "nil"]

\* changeTimeout: sets the timeout of the HTTP client, then generates the client
changeTimeout(d, h, newTimeout, fails) ==
  LET g == generateClient([d EXCEPT !.httpClient.Timeout = newTimeout], h, fails)
  IN IF g.err # "nil"
     THEN [c |-> [g.c EXCEPT !.client = NoClient], client |-> NoClient,
           err |-> "Failed to generate docker client"]
     ELSE [c |-> [g.c EXCEPT !.client = g.client], client |-> g.client, err |-> "nil"]

\* the call returns
Returned(call, e) == [call EXCEPT !.pc = "returned", !.err = e]

\* a method is called on the dockerClientImpl
Called(op, h) ==
  [NoCall EXCEPT !.op = op, !.h = h, !.client0 = docker.client,
                 !.timeout0 = docker.httpClient.Timeout]

\* a method that generates the client for its host and uses it
\* (ListContainers, GetContainer, StartContainer, ...)
GenerateClient ==
  /\ dockerCall.pc \in {"idle", "returned"}
  /\ \E h \in Hosts, fails \in BOOLEAN :
       LET g == generateClient(docker, h, fails)
       IN /\ docker' = g.c
          /\ dockerCall' = Returned([Called("generateClient", h) EXCEPT
                                       !.dockerClient = g.client], g.err)
  /\ UNCHANGED <<trackerVars, ctrlVars, routeVars, modelVars>>

\* EnsureImageDownloaded up to the call of ImageInspectWithRaw
EnsureImageDownloaded ==
  /\ dockerCall.pc \in {"idle", "returned"}
  /\ \E h \in Hosts, fails \in BOOLEAN :
       LET g == generateClient(docker, h, fails)
           call == [Called("EnsureImageDownloaded", h) EXCEPT !.dockerClient = g.client]
       IN /\ docker' = g.c
          /\ dockerCall' = IF g.err # "nil"
                           THEN Returned(call, "Failed to generate docker client")
                           ELSE [call EXCEPT !.pc = "inspect"]
  /\ UNCHANGED <<trackerVars, ctrlVars, routeVars, modelVars>>

\* EnsureImageDownloaded: ImageInspectWithRaw returns; when the image is
\* missing the timeout is extended and ImageImport called
ImageInspectReturns ==
  /\ dockerCall.pc = "inspect"
  /\ \/ \* the image exists
        /\ dockerCall' = Returned(dockerCall, "nil")
        /\ UNCHANGED docker
     \/ /\ dockerCall' = Returned(dockerCall, "Error inspecting image")
        /\ UNCHANGED docker
     \/ \* "No such image"
        \E fails \in BOOLEAN :
          LET normalTimeout == docker.httpClient.Timeout
              t == changeTimeout(docker, dockerCall.h, imageImportTimeout, fails)
              call == [dockerCall EXCEPT !.normalTimeout = normalTimeout,
                                         !.dockerClient = t.client]
          IN /\ docker' = t.c
             /\ dockerCall' = IF t.err # "nil"
                              THEN Returned(call, "Error changing http client timeout")
                              ELSE [call EXCEPT !.pc = "import"]
  /\ UNCHANGED <<trackerVars, ctrlVars, routeVars, modelVars>>

\* EnsureImageDownloaded: ImageImport returns
ImageImportReturns ==
  /\ dockerCall.pc = "import"
  /\ \/ dockerCall' = [dockerCall EXCEPT !.pc = "read"]
     \/ dockerCall' = Returned(dockerCall, "Error importing image")
  /\ UNCHANGED <<docker, trackerVars, ctrlVars, routeVars, modelVars>>

\* EnsureImageDownloaded: ioutil.ReadAll returns; the timeout is reset
ReadAllReturns ==
  /\ dockerCall.pc = "read"
  /\ \/ /\ dockerCall' = Returned(dockerCall, "Error reading ImageImport response")
        /\ UNCHANGED docker
     \/ \E fails \in BOOLEAN :
          LET t == changeTimeout(docker, dockerCall.h, dockerCall.normalTimeout, fails)
          IN /\ docker' = t.c
             /\ dockerCall' = Returned(dockerCall,
                                       IF t.err # "nil"
                                       THEN "Error changing http client timeout"
                                       ELSE "nil")
  /\ UNCHANGED <<trackerVars, ctrlVars, routeVars, modelVars>>

\* a dockerClientImpl after Init, with any timeout of its HTTP client
InitDocker ==
  /\ TrackerAtRest
  /\ docker \in {NewDocker(t) : t \in Timeouts}
  /\ dockerCall = NoCall
  /\ InitCtrl
  /\ InitRoute
  /\ ModelsAtRest

NextDocker ==
  \/ GenerateClient
  \/ EnsureImageDownloaded
  \/ ImageInspectReturns
  \/ ImageImportReturns
  \/ ReadAllReturns

SpecDocker == InitDocker /\ [][NextDocker]_vars

\* --------------------------------------------- SignalProcessingCtrl
\* A promise is pending, fulfilled or rejected; reactions are the callbacks
\* registered on it that have not been scheduled; latest records which promise
\* was theMostRecentPromise when it settled.  The documents a query resolves
\* with are written as the number of its promise.
NewPromise == [state |-> "pending", reactions |-> <<>>, latest |-> 0]

Job(fn, thisPromise) == [fn |-> fn, thisPromise |-> thisPromise]

\* every promise is taken for the most recent one
NeverStale(thisPromise) == FALSE

\* loadData: `thisPromise != theMostRecentPromise`
IsStale(thisPromise) == thisPromise # theMostRecentPromise

\* loadData(state): the query is issued and its callback registered
LoadData ==
  /\ jobs = <<>>
  /\ Len(promises) < MaxQueries
  /\ vm' = [vm EXCEPT !.isLoading = TRUE]
  /\ theMostRecentPromise' = Len(promises) + 1
  /\ promises' = Append(promises,
                        [NewPromise EXCEPT
                           !.reactions = <<Job("then", Len(promises) + 1)>>])
  /\ UNCHANGED <<jobs, trackerVars, dockerVars, routeVars, modelVars>>

\* the query of promise n resolves with its documents
Resolve(n) ==
  /\ jobs = <<>>
  /\ promises[n].state = "pending"
  /\ promises' = [promises EXCEPT ![n] = [state |-> "fulfilled", reactions |-> <<>>,
                                          latest |-> theMostRecentPromise]]
  /\ jobs' = promises[n].reactions
  /\ UNCHANGED <<vm, theMostRecentPromise, trackerVars, dockerVars, routeVars, modelVars>>

\* the callbacks to run when a promise is rejected: the callback registered
\* by loadData has no rejection handler, the inner one logs the error
OnRejected(reactions) ==
  LET inner == SelectSeq(reactions, LAMBDA j : j.fn = "hydrate")
  IN [k \in 1..Len(inner) |-> Job("error", inner[k].thisPromise)]

\* the query of promise n fails
Reject(n) ==
  /\ jobs = <<>>
  /\ promises[n].state = "pending"
  /\ promises' = [promises EXCEPT ![n] = [state |-> "rejected", reactions |-> <<>>,
                                          latest |-> theMostRecentPromise]]
  /\ jobs' = OnRejected(promises[n].reactions)
  /\ UNCHANGED <<vm, theMostRecentPromise, trackerVars, dockerVars, routeVars, modelVars>>

\* the first callback of the queue runs
RunJob ==
  /\ jobs # <<>>
  /\ LET job == Head(jobs)
         latest == promises[theMostRecentPromise]
     IN CASE job.fn = "then" ->
               \* thisPromise.then(function(docs) {...})
               IF IsStale(job.thisPromise)
               THEN /\ jobs' = Tail(jobs)
                    /\ UNCHANGED <<vm, promises>>
               ELSE \* theMostRecentPromise.then(..., ...).finally(...)
                    /\ UNCHANGED vm
                    /\ IF latest.state = "pending"
                       THEN /\ promises' =
                                 [promises EXCEPT ![theMostRecentPromise].reactions =
                                    Append(@, Job("hydrate", job.thisPromise))]
                            /\ jobs' = Tail(jobs)
                       ELSE /\ UNCHANGED promises
                            /\ jobs' = Append(Tail(jobs),
                                              Job(IF latest.state = "fulfilled"
                                                  THEN "hydrate" ELSE "error",
                                                  job.thisPromise))
          [] job.fn = "hydrate" ->
               \* hydrateData(docs); vm.gridOptions.data = docs
               /\ vm' = [vm EXCEPT !.data = job.thisPromise]
               /\ jobs' = Append(Tail(jobs), Job("finally", job.thisPromise))
               /\ UNCHANGED promises
          [] job.fn = "error" ->
               \* console.error(err)
               /\ jobs' = Append(Tail(jobs), Job("finally", job.thisPromise))
               /\ UNCHANGED <<vm, promises>>
          [] OTHER ->
               \* vm.isLoading = false
               /\ vm' = [vm EXCEPT !.isLoading = FALSE]
               /\ jobs' = Tail(jobs)
               /\ UNCHANGED promises
  /\ UNCHANGED <<theMostRecentPromise, trackerVars, dockerVars, routeVars, modelVars>>

NextCtrl ==
  \/ LoadData
  \/ \E n \in 1..Len(promises) : Resolve(n)
  \/ \E n \in 1..Len(promises) : Reject(n)
  \/ RunJob

InitPage == TrackerAtRest /\ DockerAtRest /\ InitCtrl /\ InitRoute /\ ModelsAtRest

SpecCtrl == InitPage /\ [][NextCtrl]_vars

\* a callback that is ready to run runs
CallbacksRun == WF_vars(RunJob)

SpecCtrlLive == InitPage /\ [][NextCtrl]_vars /\ CallbacksRun

\* --------------------------------------- the notification route
\* the {target_id} values a handler exists for
Supported == {"jira_comment", "jira_issue", "slack", "email"}

TargetIds == Supported \cup {"pagerduty"}

\* the request body: it cannot be read, it is not the JSON of the model, or
\* it is the JSON of one of two payloads
Bodies == {"unreadable", "invalid", "payload1", "payload2"}

Decodable(body) == body \in {"payload1", "payload2"}

\* Parse of the selected handler (jira comment, jira issue, slack, email):
\* the model it holds afterwards and the error it returns.  The error of
\* json.Unmarshal is wrapped and dropped.
HandlerParse(body) ==
  IF body = "unreadable" THEN [payload |-> "nil", err |-> "Argument read error"]
  ELSE IF ~Decodable(body) THEN [payload |-> "zero", err |-> "nil"]
  ELSE [payload |-> body, err |-> "nil"]

\* notificationPostHandler.Parse: the handler afterwards, err the error returned
ParseOf(target, body) ==
  IF target \notin Supported
  THEN [NewHandler EXCEPT !.pc = "parsed", !.err = "not a supported {target_id}"]
  ELSE [NewHandler EXCEPT !.pc = "parsed", !.handler = target,
                          !.payload = HandlerParse(body).payload]

\* a request arrives: Factory, then Parse
Parse ==
  /\ postHandler.pc \in {"idle", "responded"}
  /\ Len(sent) < MaxSent
  /\ \E target \in TargetIds, body \in Bodies :
       /\ request' = [target_id |-> target, body |-> body]
       /\ postHandler' = ParseOf(target, body)
  /\ UNCHANGED <<sent, trackerVars, dockerVars, ctrlVars, modelVars>>

\* Parse returned an error: the request is answered without Run
ParseFailed ==
  /\ postHandler.pc = "parsed"
  /\ postHandler.err # "nil"
  /\ postHandler' = [postHandler EXCEPT !.pc = "responded"]
  /\ UNCHANGED <<request, sent, trackerVars, dockerVars, ctrlVars, modelVars>>

\* Run of the selected handler: ToService of the model it holds, then the
\* message is handed to the sender.  ToService on a nil model panics.
Run ==
  /\ postHandler.pc = "parsed"
  /\ postHandler.err = "nil"
  /\ IF postHandler.payload = "nil"
     THEN /\ postHandler' = [postHandler EXCEPT !.pc = "responded", !.err = "panic"]
          /\ UNCHANGED sent
     ELSE /\ postHandler' = [postHandler EXCEPT !.pc = "responded"]
          /\ sent' = Append(sent, [target |-> postHandler.handler,
                                   payload |-> postHandler.payload])
  /\ UNCHANGED <<request, trackerVars, dockerVars, ctrlVars, modelVars>>

NextRoute ==
  \/ Parse
  \/ ParseFailed
  \/ Run

InitServer == TrackerAtRest /\ DockerAtRest /\ InitCtrl /\ InitRoute /\ ModelsAtRest

SpecRoute == InitServer /\ [][NextRoute]_vars

\* ------------------------------------------- the REST API models
\* APIString is a pointer to a string: ToAPIString points at a copy of its
\* argument, FromAPIString gives "" for a nil APIString
ToAPIString(str) == <<str>>
FromAPIString(a) == IF a = NilString THEN "" ELSE a[1]

ToAPIStrings(xs) == [k \in 1..Len(xs) |-> ToAPIString(xs[k])]
FromAPIStrings(xs) == [k \in 1..Len(xs) |-> FromAPIString(xs[k])]

\* `if src != nil { dst = []T{}; for ... { dst = append(dst, ...) } }`
Rebuilt(dst, src, elems) == IF src.nil THEN dst ELSE List(elems)

\* `for ... { dst = append(dst, ...) }`
Appended(dst, elems) == IF elems = <<>> THEN dst ELSE List(dst.elems \o elems)

\* h interface{}: a value of one of the message types or of one other type,
\* or a pointer to it
ServiceValues ==
  LET StringLists == {NilList, List(<<>>), List(<<"a">>), List(<<"a", "b">>)}
      FieldLists ==
        {NilList, List(<<>>),
         List(<<[Title |-> "title", Value |-> "value", Short |-> TRUE]>>),
         List(<<[Title |-> "title", Value |-> "value", Short |-> TRUE],
                [Title |-> "", Value |-> "value", Short |-> FALSE]>>)}
      JIRAComments == [IssueID : {"", "EVG-1"}, Body : {"", "text"}]
      JiraIssues ==
        {[IssueKey |-> "key", Project |-> project, Summary |-> "summary",
          Description |-> "description", Reporter |-> "reporter",
          Assignee |-> "assignee", Type |-> "type", Components |-> components,
          Labels |-> labels, Fields |-> "fields", Callback |-> Nil] :
           project \in {"", "project"}, components \in StringLists,
           labels \in {NilList, List(<<"l">>)}}
      SlackAttachmentFields ==
        [Title : {"", "title"}, Value : {"value"}, Short : BOOLEAN]
      SlackAttachments ==
        {[Color |-> "color", Fallback |-> "fallback", AuthorName |-> "author",
          AuthorIcon |-> "icon", Title |-> "title", TitleLink |-> "link",
          Text |-> "text", Fields |-> fields, MarkdownIn |-> markdownIn,
          Footer |-> "footer"] :
           fields \in FieldLists, markdownIn \in {NilList, List(<<"a", "b">>)}}
      Emails ==
        {[From |-> "from", Recipients |-> recipients, Subject |-> "subject",
          Body |-> "body", PlainTextContents |-> plain, Headers |-> "headers"] :
           recipients \in StringLists, plain \in BOOLEAN}
      Slacks ==
        {[Target |-> "target", Msg |-> "msg", Attachments |-> attachments] :
           attachments \in {NilList} \cup {List(<<a>>) : a \in SlackAttachments}}
      Values == [JIRAComment |-> JIRAComments, JiraIssue |-> JiraIssues,
                 Slack |-> Slacks, SlackAttachment |-> SlackAttachments,
                 SlackAttachmentField |-> SlackAttachmentFields,
                 Email |-> Emails, string |-> {<<>>}]
  IN UNION {[type : {t}, pointer : BOOLEAN, val : Values[t]] : t \in DOMAIN Values}

\* the message type of the type switch of BuildFromService
ServiceTypeOf(type) ==
  CASE type = "APIJiraComment" -> "JIRAComment"
    [] type = "APIJiraIssue" -> "JiraIssue"
    [] type = "APISlack" -> "Slack"
    [] type = "APISlackAttachment" -> "SlackAttachment"
    [] type = "APISlackAttachmentField" -> "SlackAttachmentField"
    [] OTHER -> "Email"

APIJiraCommentBuildFromService(c, comment) ==
  [c EXCEPT !.IssueID = ToAPIString(comment.IssueID),
            !.Body = ToAPIString(comment.Body)]

APIJiraCommentToService(c) ==
  [IssueID |-> FromAPIString(c.IssueID), Body |-> FromAPIString(c.Body)]

APIJiraIssueBuildFromService(i, issue) ==
  [i EXCEPT !.IssueKey = ToAPIString(issue.IssueKey),
            !.Project = ToAPIString(issue.Project),
            !.Summary = ToAPIString(issue.Summary),
            !.Description = ToAPIString(issue.Description),
            !.Reporter = ToAPIString(issue.Reporter),
            !.Assignee = ToAPIString(issue.Assignee),
            !.Type = ToAPIString(issue.Type),
            !.Components = Rebuilt(@, issue.Components,
                                   ToAPIStrings(issue.Components.elems)),
            !.Labels = Rebuilt(@, issue.Labels, ToAPIStrings(issue.Labels.elems)),
            !.Fields = issue.Fields,
            !.Callback = issue.Callback]

APIJiraIssueToService(i) ==
  [IssueKey |-> FromAPIString(i.IssueKey), Project |-> FromAPIString(i.Project),
   Summary |-> FromAPIString(i.Summary), Description |-> FromAPIString(i.Description),
   Reporter |-> FromAPIString(i.Reporter), Assignee |-> FromAPIString(i.Assignee),
   Type |-> FromAPIString(i.Type),
   Components |-> Appended(NilList, FromAPIStrings(i.Components.elems)),
   Labels |-> Appended(NilList, FromAPIStrings(i.Labels.elems)),
   Fields |-> i.Fields, Callback |-> i.Callback]

APISlackAttachmentFieldBuildFromService(f, field) ==
  [f EXCEPT !.Title = ToAPIString(field.Title), !.Value = ToAPIString(field.Value),
            !.Short = field.Short]

APISlackAttachmentFieldToService(f) ==
  [Title |-> FromAPIString(f.Title), Value |-> FromAPIString(f.Value),
   Short |-> f.Short]

APISlackAttachmentBuildFromService(a, attachment) ==
  [a EXCEPT !.Color = ToAPIString(attachment.Color),
            !.Fallback = ToAPIString(attachment.Fallback),
            !.AuthorName = ToAPIString(attachment.AuthorName),
            !.AuthorIcon = ToAPIString(attachment.AuthorIcon),
            !.Title = ToAPIString(attachment.Title),
            !.TitleLink = ToAPIString(attachment.TitleLink),
            !.Text = ToAPIString(attachment.Text),
            !.Footer = ToAPIString(attachment.Footer),
            !.Fields =
               Rebuilt(@, attachment.Fields,
                       [k \in 1..Len(attachment.Fields.elems) |->
                          APISlackAttachmentFieldBuildFromService(
                            ZeroModel("APISlackAttachmentField"),
                            attachment.Fields.elems[k])]),
            !.MarkdownIn = Rebuilt(@, attachment.MarkdownIn,
                                   ToAPIStrings(attachment.MarkdownIn.elems))]

APISlackAttachmentToService(a) ==
  [Color |-> FromAPIString(a.Color), Fallback |-> FromAPIString(a.Fallback),
   AuthorName |-> FromAPIString(a.AuthorName),
   AuthorIcon |-> FromAPIString(a.AuthorIcon), Title |-> FromAPIString(a.Title),
   TitleLink |-> FromAPIString(a.TitleLink), Text |-> FromAPIString(a.Text),
   Footer |-> FromAPIString(a.Footer),
   Fields |-> Appended(NilList,
                       [k \in 1..Len(a.Fields.elems) |->
                          APISlackAttachmentFieldToService(a.Fields.elems[k])]),
   MarkdownIn |-> Appended(NilList, FromAPIStrings(a.MarkdownIn.elems))]

APISlackBuildFromService(n, slack) ==
  [n EXCEPT !.Target = ToAPIString(slack.Target), !.Msg = ToAPIString(slack.Msg),
            !.Attachments =
               Rebuilt(@, slack.Attachments,
                       [k \in 1..Len(slack.Attachments.elems) |->
                          APISlackAttachmentBuildFromService(
                            ZeroModel("APISlackAttachment"),
                            slack.Attachments.elems[k])])]

APIEmailBuildFromService(n, email) ==
  [n EXCEPT !.From = ToAPIString(email.From),
            !.Recipients = Appended(@, ToAPIStrings(email.Recipients.elems)),
            !.Subject = ToAPIString(email.Subject),
            !.Body = ToAPIString(email.Body),
            !.PlainTextContents = email.PlainTextContents,
            !.Headers = email.Headers]

APIEmailToService(n) ==
  [From |-> FromAPIString(n.From),
   Recipients |-> Appended(NilList, FromAPIStrings(n.Recipients.elems)),
   Subject |-> FromAPIString(n.Subject), Body |-> FromAPIString(n.Body),
   PlainTextContents |-> n.PlainTextContents, Headers |-> n.Headers]

\* BuildFromService of the model's type: the model afterwards and the error
BuildFromService(api, h) ==
  IF h.type # ServiceTypeOf(api.type)
  THEN [api |-> api, err |-> "not a supported expansion type"]
  ELSE [api |-> [api EXCEPT !.val =
                   CASE api.type = "APIJiraComment" ->
                          APIJiraCommentBuildFromService(@, h.val)
                     [] api.type = "APIJiraIssue" ->
                          APIJiraIssueBuildFromService(@, h.val)
                     [] api.type = "APISlack" ->
                          APISlackBuildFromService(@, h.val)
                     [] api.type = "APISlackAttachment" ->
                          APISlackAttachmentBuildFromService(@, h.val)
                     [] api.type = "APISlackAttachmentField" ->
                          APISlackAttachmentFieldBuildFromService(@, h.val)
                     [] OTHER -> APIEmailBuildFromService(@, h.val)],
        err |-> "nil"]

\* ToService of the model's type: the value pointed to and the error
ToService(api) ==
  CASE api.type = "APIJiraComment" ->
         [val |-> APIJiraCommentToService(api.val), err |-> "nil"]
    [] api.type = "APIJiraIssue" ->
         [val |-> APIJiraIssueToService(api.val), err |-> "nil"]
    [] api.type = "APISlack" ->
         [val |-> <<>>, err |-> "ToService() is not implemented for model.APISlack"]
    [] api.type = "APISlackAttachment" ->
         [val |-> APISlackAttachmentToService(api.val), err |-> "nil"]
    [] api.type = "APISlackAttachmentField" ->
         [val |-> APISlackAttachmentFieldToService(api.val), err |-> "nil"]
    [] OTHER -> [val |-> APIEmailToService(api.val), err |-> "nil"]

\* BuildFromService is called on the model with some value
CallBuildFromService ==
  /\ conversion.builds < MaxBuilds
  /\ \E h \in ServiceValues :
       LET built == BuildFromService(apiModel, h)
       IN /\ service' = h
          /\ apiModel' = built.api
          /\ conversion' = [NoConversion EXCEPT !.pc = "built",
                                                !.builds = conversion.builds + 1,
                                                !.err = built.err]
  /\ UNCHANGED <<trackerVars, dockerVars, ctrlVars, routeVars>>

\* ToService is called on the model
CallToService ==
  /\ conversion.pc = "built"
  /\ conversion' = [conversion EXCEPT !.pc = "converted", !.out = ToService(apiModel)]
  /\ UNCHANGED <<service, apiModel, trackerVars, dockerVars, ctrlVars, routeVars>>

\* a zero value of any of the API models
InitModels ==
  /\ TrackerAtRest /\ DockerAtRest /\ InitCtrl /\ InitRoute
  /\ service = NoService
  /\ apiModel \in {[type |-> t, val |-> ZeroModel(t)] :
       t \in {"APIJiraComment", "APIJiraIssue", "APISlack", "APISlackAttachment",
              "APISlackAttachmentField", "APIEmail"}}
  /\ conversion = NoConversion

NextModels ==
  \/ CallBuildFromService
  \/ CallToService

SpecModels == InitModels /\ [][NextModels]_vars

\* ----------------------------------------------------------- claims
Batch(r) == {run[r].revisions[k] : k \in 1..Len(run[r].revisions)}

\* the loop of StoreRevisions is over (it returned, or the run ended in it)
PastLoop(r) ==
  \/ run[r].pc \in {"update", "activate", "panic"}
  \/ run[r].pc = "done" /\ Len(run[r].revisions) > 0

\* StoreRevisions returned a version and no error
StoreReturned(r) ==
  \/ run[r].pc \in {"update", "activate"}
  \/ /\ run[r].pc = "done"
     /\ Len(run[r].revisions) > 0
     /\ run[r].err \in {"nil", "update", "activate"}

\* no call of the run returned an error so far
Clean(r) ==
  /\ ~run[r].other
  /\ \A rev \in 1..MaxRev : run[r].cfg[rev] \in {"-", "exists", "ok"}

VersionsOf(rev) == {k \in 1..Len(versions) : versions[k].Revision = rev}

EnabledNames(c) ==
  {Project(c).BuildVariants[k].Name :
     k \in {j \in 1..Len(Project(c).BuildVariants) : ~Project(c).BuildVariants[j].Disabled}}

DisabledNames(c) ==
  {Project(c).BuildVariants[k].Name :
     k \in {j \in 1..Len(Project(c).BuildVariants) : Project(c).BuildVariants[j].Disabled}}

StatusesOf(v, name) ==
  {k \in 1..Len(v.BuildVariants) : v.BuildVariants[k].BuildVariant = name}

\* run b started after run a returned, took the same revisions, and both ran
\* (so far) without any call returning an error
SecondRun(a, b) ==
  /\ a \in run[b].after
  /\ run[a].pc = "done"
  /\ StoreReturned(a)
  /\ Clean(a)
  /\ Clean(b)
  /\ run[b].revisions = run[a].revisions

\* C1: StoreRevisions run a second time over the same revisions, every
\* collaborator succeeding, inserts no Version and no Build, returns the
\* Version the first run returned, and leaves one Version per revision.
C1_SecondRunIsNoOp ==
  \A a, b \in Runs :
    SecondRun(a, b) =>
      /\ run[b].stored = {}
      /\ run[b].made = {}
      /\ PastLoop(b) =>
           /\ StoreReturned(b)
           /\ run[b].newestVersion = run[a].newestVersion
           /\ \A rev \in Batch(b) : Cardinality(VersionsOf(rev)) = 1

C1_Witness ==
  \E a, b \in Runs :
    /\ SecondRun(a, b)
    /\ run[b].pc = "done"
    /\ Len(run[b].revisions) = 2
    /\ run[a].stored = Batch(a)

\* C10: a disabled build variant yields no Build, no Task and no build status
\* on the expanded Version; every other variant yields one Build and one build
\* status, recorded with Activated = FALSE.
C10_DisabledVariantsSkipped ==
  /\ \A k \in 1..Len(versions) :
       LET v == versions[k]
       IN v.Errors = {} =>
            /\ \A d \in DisabledNames(v.Config) :
                 /\ StatusesOf(v, d) = {}
                 /\ BuildId(v, d) \notin builds
                 /\ \A t \in tasks : ~(t[1] = v.Id /\ t[2] = d)
            /\ \A e \in EnabledNames(v.Config) :
                 /\ Cardinality(StatusesOf(v, e)) = 1
                 /\ BuildId(v, e) \in builds
  /\ \A r \in Runs :
       \A k \in 1..Len(run[r].v.BuildVariants) :
         /\ ~run[r].v.BuildVariants[k].Activated
         /\ run[r].v.BuildVariants[k].BuildVariant \in EnabledNames(run[r].project)

C10_Witness ==
  \E k \in 1..Len(versions) :
    /\ versions[k].Errors = {}
    /\ DisabledNames(versions[k].Config) # {}
    /\ Len(versions[k].BuildVariants) = 1
    /\ BuildId(versions[k], "x") \in builds

IsStub(v) == v.Errors # {} /\ v.BuildVariants = <<>>

IsExpanded(v) ==
  /\ v.Errors = {}
  /\ Len(v.BuildVariants) = Cardinality(EnabledNames(v.Config))
  /\ \A e \in EnabledNames(v.Config) :
       /\ Cardinality(StatusesOf(v, e)) = 1
       /\ BuildId(v, e) \in builds

BuildsOf(v) == {b \in builds : b[1] = v.Id}

StrictlyIncreasing ==
  \A i, j \in 1..Len(versions) :
    i < j => versions[i].RevisionOrderNumber < versions[j].RevisionOrderNumber

\* C2: the stored Versions' order numbers increase strictly in insertion order,
\* and a Version whose order number or revision fails the sanity check is
\* refused with nothing inserted.
C2_OrderNumbersIncrease ==
  [][/\ StrictlyIncreasing'
     /\ \A r \in Runs :
          (/\ run[r].pc = "sanity"
           /\ run'[r] # run[r]
           /\ sanityCheckOrderNum(run[r].v.RevisionOrderNumber, run[r].v.Revision) # "nil")
          => /\ versions' = versions
             /\ builds' = builds
             /\ run'[r].pc = "loop"]_vars

Recoverable(r) == {rev \in Batch(r) : run[r].cfg[rev] = "recoverable"}

\* the run's only error is the config fetch of one revision, a projectConfigError
OneRecoverable(r) ==
  /\ PastLoop(r)
  /\ ~run[r].other
  /\ Cardinality(Recoverable(r)) = 1
  /\ \A rev \in Batch(r) \ Recoverable(r) :
       /\ run[r].cfg[rev] = "ok"
       /\ Project(revKind[rev].cfg).Syntax # "error"

\* C3: a batch in which one revision's config fetch fails with a
\* projectConfigError and everything else succeeds returns no error, stores a
\* stub for that revision and an expanded Version for every other revision.
C3_OneBadConfigIsIsolated ==
  \A r \in Runs :
    OneRecoverable(r) =>
      /\ StoreReturned(r)
      /\ \A rev \in Batch(r) :
           /\ Cardinality(VersionsOf(rev)) = 1
           /\ IF rev \in Recoverable(r)
              THEN IsStub(FindOneById(rev))
              ELSE IsExpanded(FindOneById(rev))

C3_Witness ==
  \E r \in Runs :
    /\ OneRecoverable(r)
    /\ run[r].pc = "done"
    /\ Len(run[r].revisions) = 2
    /\ Recoverable(r) = {run[r].revisions[2]}
    /\ run[r].stored = Batch(r)

\* C4: when the config fetch of a revision fails with an infrastructural error
\* the run returns that error at once: it stores no Version for the revision,
\* it has stored none for a newer revision, and the watermark is the one the
\* run read.
C4_FatalConfigAborts ==
  [][\A r \in Runs : \A f \in 1..MaxRev :
       (run[r].cfg[f] # "fatal" /\ run'[r].cfg[f] = "fatal") =>
          /\ run'[r].pc = "done"
          /\ run'[r].err = "config"
          /\ versions' = versions
          /\ \A rev \in run'[r].stored : rev < f
          /\ lastRevision' = run'[r].wm0]_vars

C4_Witness ==
  \E r \in Runs :
    /\ run[r].pc = "done"
    /\ run[r].err = "config"
    /\ Len(run[r].revisions) = 2
    /\ run[r].cfg[run[r].revisions[1]] = "fatal"
    /\ run[r].stored = {run[r].revisions[2]}
    /\ lastRevision = run[r].wm0

\* C5: every stored Version is a stub (errors, no build status, no Build in
\* the store) or fully expanded (no errors, one build status and one stored
\* Build per enabled build variant).
C5_StubOrExpanded ==
  \A k \in 1..Len(versions) :
    \/ IsStub(versions[k]) /\ BuildsOf(versions[k]) = {}
    \/ /\ IsExpanded(versions[k])
       /\ Cardinality(BuildsOf(versions[k])) = Cardinality(EnabledNames(versions[k].Config))

\* C6: when FetchRevisions has advanced the watermark, every revision of the
\* batch has a stored Version.
C6_WatermarkPastStoredOnly ==
  \A r \in Runs :
    (run[r].pc = "activate" /\ Len(run[r].revisions) > 0) =>
      \A rev \in Batch(r) : VersionsOf(rev) # {}

\* C7: the watermark never moves back to an older revision.
C7_WatermarkMonotonic == [][lastRevision' >= lastRevision]_vars

\* the stored Versions of lower order number with a build status for the variant
PriorRecorded(v, name) ==
  {k \in 1..Len(versions) :
     /\ versions[k].RevisionOrderNumber < v.RevisionOrderNumber
     /\ StatusesOf(versions[k], name) # {}}

\* those of them whose build status for the variant has been activated
PriorActivated(v, name) ==
  {k \in PriorRecorded(v, name) :
     \E s \in StatusesOf(versions[k], name) : versions[k].BuildVariants[s].Activated}

MostRecent(S) ==
  CHOOSE k \in S :
    \A j \in S : versions[j].RevisionOrderNumber <= versions[k].RevisionOrderNumber

RecordedAt(k, name) ==
  versions[k].BuildVariants[CHOOSE s \in StatusesOf(versions[k], name) : TRUE].ActivateAt

\* the variant's batch time: its own, else the project's
BatchTimeOf(r, name) ==
  LET bvs == Project(run[r].project).BuildVariants
      bv == bvs[CHOOSE k \in 1..Len(bvs) : bvs[k].Name = name]
  IN IF bv.BatchTime # NoBatchTime THEN bv.BatchTime ELSE run[r].ref.BatchTime

\* createVersionItems has just recorded a build status on the Version of run r
Expanded(r) ==
  Len(run'[r].v.BuildVariants) = Len(run[r].v.BuildVariants) + 1

NewStatus(r) == run'[r].v.BuildVariants[Len(run'[r].v.BuildVariants)]

C9_ActivateAtNonDecreasing ==
  \A name \in VariantNames : \A i, j \in 1..Len(versions) :
    (/\ versions[i].RevisionOrderNumber < versions[j].RevisionOrderNumber
     /\ StatusesOf(versions[i], name) # {}
     /\ StatusesOf(versions[j], name) # {})
    => RecordedAt(i, name) <= RecordedAt(j, name)

\* the insert of the expanded Version of run r has just failed with an error that
\* is no duplicate key
InsertFailed(r) ==
  /\ run[r].pc = "insert"
  /\ run'[r] # run[r]
  /\ ~IsDuplicateKey(run[r].v)
  /\ versions' = versions

\* C11: when the insert of an expanded Version fails with an error that is no
\* duplicate key, the Builds created for the Version are deleted and the error
\* is returned by the pipeline.
C11_InsertFailureRollsBackAndPropagates ==
  [][\A r \in Runs :
       InsertFailed(r) =>
         /\ BuildsOf(run[r].v) \cap builds' = {}
         /\ run'[r].pc = "done"
         /\ run'[r].err # "nil"]_vars

\* run r has just got a duplicate-key error from the insert of its Version
DuplicateInsert(r) ==
  /\ run[r].pc \in {"insert", "errInsert", "stubInsert"}
  /\ run'[r] # run[r]
  /\ faults' = faults
  /\ IsDuplicateKey(run[r].v)

\* C12: a duplicate-key error of a Version insert counts as success on each
\* insert path: nothing is inserted or deleted and the Version is the newest
\* processed one, as after a successful insert.
C12_DuplicateKeyIsSuccess ==
  [][\A r \in Runs :
       DuplicateInsert(r) =>
         /\ versions' = versions
         /\ builds' = builds
         /\ run'[r].pc = "loop"
         /\ run'[r].newestVersion = run[r].v.Id]_vars

\* C20: when sanityCheckOrderNum rejects a revision the batch ends there: the
\* error is returned by StoreRevisions and FetchRevisions and the watermark
\* stays as the run read it.
C20_SanityFailureIsFatal ==
  [][\A r \in Runs :
       (/\ run[r].pc = "sanity"
        /\ run'[r] # run[r]
        /\ sanityCheckOrderNum(run[r].v.RevisionOrderNumber, run[r].v.Revision) # "nil")
       => /\ run'[r].pc = "done"
          /\ run'[r].err # "nil"
          /\ lastRevision' = run[r].wm0]_vars

\* C13: a Version created from a config is ignored exactly when the config
\* declares ignore patterns and they match every file the revision changed;
\* an ignored Version without errors still has one Build per enabled variant.
C13_IgnoredWhenAllFilesIgnored ==
  \A k \in 1..Len(versions) :
    LET v == versions[k]
    IN v.Config # 0 =>
         /\ v.Ignored = (Project(v.Config).Ignore /\ revKind[v.Revision].onlyIgnored)
         /\ (v.Ignored /\ v.Errors = {}) =>
              /\ IsExpanded(v)
              /\ Cardinality(BuildsOf(v)) = Cardinality(EnabledNames(v.Config))

C13_Witness ==
  \E k \in 1..Len(versions) :
    /\ versions[k].Ignored
    /\ Len(versions[k].BuildVariants) = 2
    /\ Cardinality(BuildsOf(versions[k])) = 2

\* C14: with no collaborator failing, two runs interleaved over the same
\* revisions never crash, end without error, leave at most one Version per
\* revision and, once both are over, no Build without a stored Version.
C14_ConcurrentRunsConverge ==
  faults = MaxFaults - 1 =>
    /\ \A r \in Runs : run[r].pc # "panic"
    /\ \A r \in Runs : run[r].pc = "done" => run[r].err = "nil"
    /\ \A rev \in 1..head : Cardinality(VersionsOf(rev)) <= 1
    /\ (\A r \in Runs : run[r].pc \in {"idle", "done"}) =>
         \A b \in builds : \E k \in 1..Len(versions) : versions[k].Id = b[1]

\* C15: FetchRevisions of a disabled project returns nil at once: it reads no
\* watermark, polls nothing, fails no call, stores no Version, Build or task,
\* draws no order number, leaves the watermark alone and activates nothing.
C15_DisabledProjectIsNoOp ==
  [][\A r \in Runs :
       (/\ run[r].pc = "idle"
        /\ run'[r] # run[r]
        /\ ~ref.Enabled)
       => /\ run'[r].pc = "done"
          /\ run'[r].err = "nil"
          /\ run'[r].wm0 = run[r].wm0
          /\ run'[r].revisions = <<>>
          /\ faults' = faults
          /\ versions' = versions
          /\ builds' = builds
          /\ tasks' = tasks
          /\ counter' = counter
          /\ lastRevision' = lastRevision]_vars

C15_Witness ==
  \E r \in Runs :
    /\ run[r].pc = "done"
    /\ ~run[r].ref.Enabled
    /\ run[r].err = "nil"
    /\ head > 0

PollFails(r) ==
  /\ run[r].pc = "idle"
  /\ ~run[r].other
  /\ run'[r].other

\* C16: when the poll of the Revision Source fails, FetchRevisions returns nil
\* and leaves the Versions, the Builds, the order-number counter and the
\* watermark as they were.
C16_PollFailureIsSwallowed ==
  [][\A r \in Runs :
       PollFails(r) =>
         /\ run'[r].pc = "done"
         /\ run'[r].err = "nil"
         /\ versions' = versions
         /\ builds' = builds
         /\ tasks' = tasks
         /\ counter' = counter
         /\ lastRevision' = lastRevision]_vars

C16_Witness ==
  \E r \in Runs :
    /\ run[r].pc = "done"
    /\ run[r].other
    /\ run[r].revisions = <<>>
    /\ run[r].err = "nil"
    /\ head > run[r].wm0

\* C17: once the watermark has moved past a revision, the revision eventually
\* has a stored Version, calls failing only finitely often.
C17_ObservedRevisionEventuallyStored ==
  \A rev \in 1..SeqRev : (lastRevision > rev) ~> (VersionsOf(rev) # {})

\* the lookup of StoreRevisions finds a stored Version for the revision at hand
FoundExisting(r) ==
  /\ run[r].pc = "loop"
  /\ run[r].i >= 1
  /\ run'[r] # run[r]
  /\ faults' = faults
  /\ VersionsOf(Revision(run[r])) # {}

\* C18: when the lookup finds a Version for the revision, StoreRevisions goes on
\* to the next revision at once: no config or changed files are fetched, no
\* order number is drawn, nothing is inserted, and the Version found becomes
\* the newest Version of the batch.
C18_ExistingVersionIsSkipped ==
  [][\A r \in Runs :
       FoundExisting(r) =>
         /\ counter' = counter
         /\ versions' = versions
         /\ builds' = builds
         /\ tasks' = tasks
         /\ lastRevision' = lastRevision
         /\ run'[r].pc = "loop"
         /\ run'[r].i = run[r].i - 1
         /\ run'[r].cfg[Revision(run[r])] = "exists"
         /\ \E k \in VersionsOf(Revision(run[r])) :
              run'[r].newestVersion = versions[k].Id]_vars

C18_Witness ==
  \E r \in Runs : \E rev \in 1..MaxRev :
    /\ run[r].pc = "loop"
    /\ run[r].cfg[rev] = "exists"
    /\ VersionsOf(rev) # {}
    /\ \E k \in VersionsOf(rev) : run[r].newestVersion = versions[k].Id

\* C19: the list of a batch is newest first and StoreRevisions walks it from
\* its end: a revision is examined only when every older revision of the batch
\* has been dealt with, and the Versions one run stores have order numbers
\* that increase with the revisions.
C19_OldestFirst ==
  \A r \in Runs :
    LET revs == run[r].revisions
    IN /\ \A k \in 1..(Len(revs) - 1) : revs[k] > revs[k + 1]
       /\ \A k \in 1..Len(revs) :
            run[r].cfg[revs[k]] # "-" =>
              /\ k >= run[r].i
              /\ \A j \in (k + 1)..Len(revs) : run[r].cfg[revs[j]] # "-"
       /\ \A a, b \in run[r].stored :
            a < b =>
              \A ka \in VersionsOf(a) : \A kb \in VersionsOf(b) :
                versions[ka].RevisionOrderNumber < versions[kb].RevisionOrderNumber

C19_Witness ==
  \E r \in Runs :
    /\ run[r].revisions = <<2, 1>>
    /\ run[r].stored = {1, 2}
    /\ \E ka \in VersionsOf(1) : \E kb \in VersionsOf(2) :
         versions[ka].RevisionOrderNumber < versions[kb].RevisionOrderNumber

\* the config of the revision at hand is read and GetChangedFiles fails
ChangedFilesFailed(r) ==
  /\ run[r].pc = "config"
  /\ faults' = faults + 1
  /\ run'[r].cfg[Revision(run[r])] = "ok"

\* C21: when the config declares ignore patterns and GetChangedFiles fails,
\* the revision goes on to the creation of its Version, not ignored.
C21_ChangedFilesFailureIsNotIgnored ==
  [][\A r \in Runs :
       ChangedFilesFailed(r) =>
         /\ run'[r].pc = "shell"
         /\ run'[r].i = run[r].i
         /\ ~run'[r].ignore]_vars

\* a run of an enabled project with a repotracker error starts, no call failing
StartsWithTrackerError(r) ==
  /\ run[r].pc = "idle"
  /\ run'[r] # run[r]
  /\ faults' = faults
  /\ ref.Enabled
  /\ ref.RepotrackerError

\* C22: with a recorded last revision and the repotracker error set,
\* FetchRevisions polls nothing, stores nothing, leaves the watermark and
\* returns nil; with no last revision the error is not looked at and the most
\* recent revisions are polled.
C22_TrackerErrorSkipsPoll ==
  [][\A r \in Runs :
       StartsWithTrackerError(r) =>
         IF lastRevision # 0
         THEN /\ run'[r].pc = "done"
              /\ run'[r].err = "nil"
              /\ run'[r].revisions = <<>>
              /\ versions' = versions
              /\ builds' = builds
              /\ tasks' = tasks
              /\ counter' = counter
              /\ lastRevision' = lastRevision
         ELSE /\ run'[r].revisions = GetRecentRevisions(NumRevisions)
              /\ run'[r].pc = IF head = 0 THEN "activate" ELSE "loop"]_vars

C22_Witness ==
  \E r \in Runs :
    /\ run[r].pc = "done"
    /\ run[r].ref.Enabled
    /\ run[r].ref.RepotrackerError
    /\ run[r].wm0 # 0
    /\ head > run[r].wm0
    /\ run[r].revisions = <<>>
    /\ run[r].err = "nil"
    /\ ~run[r].other

\* the poll of an enabled project succeeds and returns no revision
EmptyPoll(r) ==
  /\ run[r].pc = "idle"
  /\ run'[r] # run[r]
  /\ ref.Enabled
  /\ ~SkipsPoll(ref, lastRevision)
  /\ faults' = faults
  /\ run'[r].revisions = <<>>

\* the watermark is written after the batch was stored
Advanced(r) ==
  /\ run[r].pc = "update"
  /\ run'[r] # run[r]
  /\ faults' = faults

\* C23: a run whose poll returned nothing, and a run that has stored its batch
\* and written the watermark, go on to DoProjectActivation; the run calls it
\* once and returns its error, nil when it succeeds.
C23_ActivationOncePerRun ==
  [][\A r \in Runs :
       /\ (EmptyPoll(r) \/ Advanced(r)) =>
            /\ run'[r].pc = "activate"
            /\ run'[r].acts = 0
       /\ (run[r].pc = "activate" /\ run'[r] # run[r]) =>
            /\ run'[r].pc = "done"
            /\ run[r].acts = 0
            /\ run'[r].acts = 1
            /\ run'[r].err = IF faults' = faults THEN "nil" ELSE "activate"
       /\ run[r].pc # "activate" => run'[r].acts \in {run[r].acts, 0}]_vars

C23_Witness ==
  \E r \in Runs :
    /\ run[r].pc = "done"
    /\ run[r].poll = "since"
    /\ run[r].revisions = <<>>
    /\ run[r].acts = 1
    /\ run[r].err = "nil"

UpdateFails(r) ==
  /\ run[r].pc = "update"
  /\ run'[r] # run[r]
  /\ faults' # faults

\* a run that started after run a had returned with the error of UpdateLastRevision
AfterFailedUpdate(a, b) ==
  /\ a \in run[b].after
  /\ run[a].pc = "done"
  /\ run[a].err = "update"
  /\ PastLoop(b)
  /\ Clean(b)

\* C24: when UpdateLastRevision fails, FetchRevisions returns its error without
\* calling DoProjectActivation, the watermark and the stored Versions stay, and
\* the next run skips as existing every revision it polls again that the
\* batch had stored.
C24_UpdateFailureIsReturned ==
  [][/\ \A r \in Runs :
          UpdateFails(r) =>
            /\ run'[r].pc = "done"
            /\ run'[r].err = "update"
            /\ run'[r].acts = 0
            /\ versions' = versions
            /\ lastRevision' = lastRevision
     /\ \A a, b \in Runs :
          AfterFailedUpdate(a, b)' =>
            \A rev \in run'[a].stored \cap Batch(b)' : run'[b].cfg[rev] = "exists"]_vars

C24_Witness ==
  \E a, b \in Runs :
    /\ AfterFailedUpdate(a, b)
    /\ run[a].stored # {}
    /\ run[a].stored \subseteq Batch(b)
    /\ \A rev \in run[a].stored : run[b].cfg[rev] = "exists"

\* a run polls the repository
Polls(r) ==
  /\ run[r].pc = "idle"
  /\ run'[r].poll # "-"

\* C25: with no last revision recorded FetchRevisions calls GetRecentRevisions
\* with the configured number, 200 when that is not positive; with one it calls
\* GetRevisionsSince from it with the configured depth, 50 when that is not
\* positive; a run that does not poll is disabled, skips the poll or fails before.
C25_PollChosenByWatermark ==
  [][\A r \in Runs :
       /\ Polls(r) =>
            IF lastRevision = 0
            THEN /\ run'[r].poll = "recent"
                 /\ faults' = faults =>
                      run'[r].revisions =
                        GetRecentRevisions(IF settings.NumNewRepoRevisionsToFetch <= 0
                                           THEN 200
                                           ELSE settings.NumNewRepoRevisionsToFetch)
            ELSE /\ run'[r].poll = "since"
                 /\ faults' = faults =>
                      run'[r].revisions =
                        GetRevisionsSince(lastRevision,
                                          IF settings.MaxRepoRevisionsToSearch <= 0
                                          THEN 50
                                          ELSE settings.MaxRepoRevisionsToSearch)
       /\ (run[r].pc = "idle" /\ run'[r] # run[r] /\ run'[r].poll = "-") =>
            \/ ~ref.Enabled
            \/ SkipsPoll(ref, lastRevision)
            \/ run'[r].err = "repository"
       /\ run[r].pc # "idle" => run'[r].poll \in {run[r].poll, "-"}]_vars

C25_Witness ==
  \E r \in Runs :
    /\ run[r].poll = "recent"
    /\ settings.NumNewRepoRevisionsToFetch <= 0
    /\ Len(run[r].revisions) = MaxRev

\* GetProjectConfig returns to StoreRevisions
ConfigReturns(r) ==
  /\ run[r].pc = "config"
  /\ run'[r] # run[r]
  /\ run'[r].cfg[Revision(run[r])] # "-"

\* C26: with a local config path GetProjectConfig does not call GetRemoteConfig
\* and its result is the local one; otherwise an APIRequestError,
\* YAMLFormatError or FileNotFoundError gives a projectConfigError with an
\* error message and no project, any other error of GetRemoteConfig is
\* returned as it is, and success gives the project and no error.
C26_ConfigOutcomeClasses ==
  [][\A r \in Runs :
       /\ ConfigReturns(r) =>
            LET class == run'[r].cfg[Revision(run[r])]
                fetch == IF run'[r].pc = "loop" THEN "nil" ELSE run'[r].fetch
            IN /\ class \in {"ok", "recoverable", "fatal"}
               /\ run[r].ref.LocalConfig =>
                    /\ run'[r].fetch = "-"
                    /\ class \in {"ok", "fatal"}
               /\ ~run[r].ref.LocalConfig =>
                    /\ fetch # "-"
                    /\ class = "recoverable" <=>
                         fetch \in {"APIRequestError", "YAMLFormatError",
                                    "FileNotFoundError"}
                    /\ class = "ok" <=> fetch = "nil"
               /\ class = "recoverable" => run'[r].pc = "stub" /\ run'[r].project = 0
               /\ class = "fatal" => run'[r].pc = "done" /\ run'[r].err = "config"
               /\ (class = "ok" /\ run'[r].pc = "shell") =>
                    run'[r].project = revKind[Revision(run[r])].cfg
       /\ run'[r].pc = "stubInsert" => run'[r].v.Errors # {}]_vars

C26_Witness ==
  \E r \in Runs :
    /\ run[r].pc = "stubInsert"
    /\ run[r].fetch = "YAMLFormatError"
    /\ run[r].v.Errors # {}

\* C27: a Version created from a config whose validation has an error is
\* stored with the errors and the warnings and without any Build; one whose
\* validation has warnings only is stored expanded, with the warnings and no
\* errors.
C27_ErrorsStopBeforeExpansion ==
  /\ \A k \in 1..Len(versions) :
       LET v == versions[k]
           level == Project(v.Config).Syntax
       IN v.Config # 0 =>
            IF level = "error"
            THEN /\ v.Errors = {"syntax"}
                 /\ v.Warnings = {"syntax"}
                 /\ v.BuildVariants = <<>>
                 /\ BuildsOf(v) = {}
            ELSE /\ v.Errors = {}
                 /\ v.Warnings = IF level = "warning" THEN {"syntax"} ELSE {}
                 /\ IsExpanded(v)
  /\ \A r \in Runs :
       /\ run[r].pc = "errInsert" => BuildsOf(run[r].v) = {} /\ run[r].v.Errors # {}
       /\ run[r].pc \in {"builds", "insert"} => run[r].v.Errors = {}

C27_Witness ==
  \E j, k \in 1..Len(versions) :
    /\ Project(versions[j].Config).Syntax = "error"
    /\ versions[j].Errors # {}
    /\ versions[j].Warnings # {}
    /\ BuildsOf(versions[j]) = {}
    /\ Project(versions[k].Config).Syntax = "warning"
    /\ versions[k].Warnings # {}
    /\ IsExpanded(versions[k])

\* createVersionItems returns an error to CreateVersionFromConfig
ItemsFailed(r) ==
  /\ run[r].pc \in {"builds", "insert"}
  /\ run'[r].pc = "loop"
  /\ versions' = versions
  /\ ~IsDuplicateKey(run[r].v)

\* C28: when createVersionItems returns an error, none of the Builds it
\* created for the Version is left in the store.
C28_FailedExpansionLeavesNoBuild ==
  [][\A r \in Runs :
       ItemsFailed(r) =>
         \A b \in run'[r].made : b[1] = run[r].v.Id => b \notin builds']_vars

\* the order number the run holds for the Version it is creating, 0 when none
Allocated(r) == run[r].v.RevisionOrderNumber

\* C29: no two stored Versions have the same order number; an order number a
\* run has drawn is the counter's next value, and no other run and no stored
\* Version has it, whether or not the creation succeeds; a stored Version
\* keeps its order number.
C29_OrderNumbersNeverReused ==
  [][/\ \A i, j \in 1..Len(versions') :
          i # j => versions'[i].RevisionOrderNumber # versions'[j].RevisionOrderNumber
     /\ \A k \in 1..Len(versions) :
          /\ k <= Len(versions')
          /\ versions'[k].Id = versions[k].Id
          /\ versions'[k].RevisionOrderNumber = versions[k].RevisionOrderNumber
     /\ counter' >= counter
     /\ \A r \in Runs :
          /\ (Allocated(r) = 0 /\ Allocated(r)' # 0) =>
               /\ Allocated(r)' = counter + 1
               /\ counter' = counter + 1
          /\ Allocated(r)' # 0 =>
               /\ \A q \in Runs \ {r} : Allocated(q)' # Allocated(r)'
               /\ \A k \in 1..Len(versions') :
                    versions'[k].RevisionOrderNumber # Allocated(r)']_vars

C29_Witness ==
  /\ Len(versions) = 2
  /\ counter > 2
  /\ versions[1].RevisionOrderNumber # versions[2].RevisionOrderNumber
  /\ \E r \in Runs : run[r].other /\ run[r].pc = "done"

\* the Version is inserted and addBuildBreakSubscriptions returns an error
HookFails(r) ==
  /\ run[r].pc \in {"errInsert", "insert"}
  /\ Len(versions') > Len(versions)
  /\ faults' = faults + 1

\* C30: addBuildBreakSubscriptions is called for expanded Versions only, and
\* when it fails the Version just stored still counts as the newest Version of
\* the batch, the one the watermark is advanced to.
C30_HookIsFireAndForget ==
  [][\A r \in Runs :
       HookFails(r) =>
         /\ run[r].v.Errors = {}
         /\ run'[r].newestVersion = run[r].v.Id]_vars

\* the documents of project q: its repository document (watermark and order
\* number counter), its Versions, and the Builds and Tasks of its Versions
StateOf(q) ==
  LET ids == {MakeId(q, rev) : rev \in 1..MaxRev}
  IN <<others[q],
       SelectSeq(versions, LAMBDA v : v.Identifier = q),
       {b \in builds : b[1] \in ids},
       {t \in tasks : t[1] \in ids}>>

\* what a run holds comes from the tracked project's documents only
HoldsOwn(r) ==
  /\ run[r].newestVersion # 0 => FindOneById(run[r].newestVersion).Identifier \in
                                    {TrackedProject, ""}
  /\ \A rev \in 1..MaxRev :
        run[r].cfg[rev] = "exists" =>
          \E k \in OfProject(TrackedProject) : versions[k].Revision = rev

\* C31: every step of a FetchRevisions run of the tracked project leaves the
\* watermark, the order number counter, the Versions, the Builds and the Tasks
\* of every other project as they were, whatever the other project's tracker
\* has stored in between; and the run takes a revision for stored, and a
\* Version for its newest, only from the tracked project's own Versions.
C31_RunTouchesOwnProjectOnly ==
  [][run' # run =>
       /\ \A q \in OtherProjects : StateOf(q)' = StateOf(q)
       /\ \A r \in Runs : HoldsOwn(r)']_vars

\* a run stored a Version and activated while the other project had a stored,
\* not yet activated Version of the same revision and a watermark
C31_Witness ==
  /\ run["a"].pc = "done"
  /\ run["a"].err = "nil"
  /\ run["a"].stored # {}
  /\ run["a"].acts = 1
  /\ \E q \in OtherProjects :
        /\ others[q].LastRevision > 0
        /\ \E k \in OfProject(q) :
              /\ versions[k].Revision \in run["a"].stored
              /\ ~versions[k].BuildVariants[1].Activated

\* FetchRevisions reads lastVersion.Identifier of a nil lastVersion
NilDereferenced(r) == run[r].pc = "panic" /\ run[r].i = 0

\* C32: whenever StoreRevisions returns no error for a non-empty batch it
\* returns a Version, so that FetchRevisions never reads the fields of a nil
\* Version when it advances the watermark; this includes the batches in which
\* every revision was skipped and those whose stub insert failed.
C32_StoreRevisionsReturnsAVersion == \A r \in Runs : ~NilDereferenced(r)

\* StoreRevisions writes the fields of a nil stubVersion
NilStubUsed(r) == run[r].pc = "panic" /\ run[r].i >= 1

\* C33: when shellVersionFromRevision fails on the recoverable-config-error
\* path, StoreRevisions treats the failure as an error value: it goes on
\* without using the nil stub Version.
C33_StubFailureIsAnErrorValue == \A r \in Runs : ~NilStubUsed(r)

\* C34: in every reachable state a present watermark names a revision of
\* which the project has a stored Version.
C34_WatermarkNamesStoredVersion ==
  lastRevision # 0 =>
    \E k \in OfProject(TrackedProject) : versions[k].Revision = lastRevision

\* a run has set the watermark from the Version StoreRevisions returned, in a
\* batch of which another revision was left without a Version
C34_Witness ==
  \E r \in Runs :
    /\ run[r].pc = "done"
    /\ run[r].wm0 = 0
    /\ lastRevision \in Batch(r)
    /\ \E rev \in Batch(r) : VersionsOf(rev) = {}

\* a call of the method has returned
DockerReturned(op) == dockerCall.op = op /\ dockerCall.pc = "returned"

\* C35: the client generateClient returns for a host targets the endpoint of
\* that host, whatever hosts it was called with before on the same
\* dockerClientImpl; a call with a blank host returns an error and leaves the
\* cached client as it was.
C35_ClientBoundToItsHost ==
  DockerReturned("generateClient") =>
    /\ dockerCall.err = "nil" => dockerCall.dockerClient = Endpoint(dockerCall.h)
    /\ dockerCall.h.Host = "" =>
          dockerCall.err # "nil" /\ docker.client = dockerCall.client0

\* C36: on every return path of EnsureImageDownloaded the timeout of the
\* shared HTTP client is what it was when the method was called.
C36_TimeoutRestored ==
  DockerReturned("EnsureImageDownloaded") =>
    docker.httpClient.Timeout = dockerCall.timeout0

\* C37: vm.gridOptions.data is only ever written with the documents of the
\* query issued last; the response of an older query, resolving before or
\* after the newest one, never overwrites the grid data.
C37_OnlyNewestQueryWritesGrid ==
  [][vm'.data # vm.data => vm'.data = Len(promises)]_vars

\* two queries were in flight together, both resolved, the older one while
\* the newer one was the most recent, and the grid shows the newer one's data
C37_Witness ==
  /\ Len(promises) >= 2
  /\ promises[1].state = "fulfilled"
  /\ promises[1].latest = 2
  /\ promises[2].state = "fulfilled"
  /\ jobs = <<>>
  /\ vm.data = 2

\* the query issued last has settled
NewestSettled == promises # <<>> /\ promises[Len(promises)].state # "pending"

\* C38: once the query issued last has settled, resolved or rejected,
\* vm.isLoading becomes false (unless a newer query is issued first), so that
\* it is never left true with no query in flight.
C38_LoadingEndsWhenNewestSettles ==
  NewestSettled ~> (~vm.isLoading \/ ~NewestSettled)

\* C39: Parse returns an error and selects no handler for a target_id that
\* is not supported; for a supported one it returns success only if the
\* selected handler read and decoded the payload, so that no notification is
\* ever dispatched from a payload that was not decoded.
C39_ParseSucceedsOnlyWhenDecoded ==
  /\ postHandler.pc = "parsed" =>
        IF request.target_id \in Supported
        THEN postHandler.err = "nil" =>
               Decodable(request.body) /\ postHandler.payload = request.body
        ELSE postHandler.err # "nil" /\ postHandler.handler = "nil"
  /\ \A k \in 1..Len(sent) : Decodable(sent[k].payload)

\* the list-valued fields of each message type
ListFields(type) ==
  CASE type = "JiraIssue" -> {"Components", "Labels"}
    [] type = "SlackAttachment" -> {"Fields", "MarkdownIn"}
    [] type = "Email" -> {"Recipients"}
    [] OTHER -> {}

\* x and y agree on every field; a list field has the same elements in the
\* same order (a nil list and an empty list have the same elements)
SameFields(type, x, y) ==
  \A f \in DOMAIN x :
     IF f \in ListFields(type) THEN x[f].elems = y[f].elems ELSE x[f] = y[f]

\* C40: BuildFromService succeeds exactly for a value, or a pointer to a
\* value, of the model's message type; ToService of the model built from x
\* gives a value with the fields of x, lists in the same order; ToService of
\* APISlack always returns an error.
C40_ModelsRoundTrip ==
  /\ conversion.pc \in {"built", "converted"} =>
        (conversion.err = "nil" <=> service.type = ServiceTypeOf(apiModel.type))
  /\ conversion.pc = "converted" =>
        IF apiModel.type = "APISlack"
        THEN conversion.out.err # "nil"
        ELSE /\ conversion.out.err = "nil"
             /\ conversion.err = "nil" =>
                   SameFields(service.type, service.val, conversion.out.val)
====
